---- MODULE Spec2Model ----
(***************************************************************************)
(* Verification model of the timber-joint core of the BentWizard           *)
(* workbench: the parameter model (joints/base.py), the built-in joint     *)
(* definitions' parameter derivation (joints/builtin/*.py) and the         *)
(* per-joint update orchestrator (objects/TimberJoint.py) together with    *)
(* the member rebuild (objects/TimberMember.py).                           *)
(*                                                                         *)
(* Units.  Python floats that carry lengths or angles are modelled as      *)
(* integers in tenths of the source unit (25.4 mm is 254, 14.0 degrees is  *)
(* 140).  Python ints are modelled unscaled.  Datum coordinates are        *)
(* integers in centimetres.  The member dimensions the model draws from    *)
(* are chosen so that the fractions the code takes of them are exact.      *)
(***************************************************************************)
EXTENDS Integers, Sequences, FiniteSets, TLC

VARIABLES
    ps,          \* SpecPS: the ParameterSet under test (_params, _order)
    supplied,    \* SpecPS: per name, the default most recently supplied
    lastOp,      \* SpecPS: the ParameterSet call made by the last step
    member,      \* Spec: per TimberMember, its properties, touched flag, Shape
    joint,       \* Spec: the TimberJoint object (properties, proxy flag)
    passes,      \* Spec: recompute passes run since the last external edit
    edits,       \* Spec: external edits made so far
    lastPass,    \* Spec: what the joint's last execute did
    registry,    \* SpecReg: loader._registry, the definitions in insertion order
    loaded,      \* SpecReg: loader._loaded
    user_dir,    \* SpecReg: the definition files of the user joints directory
    regOp,       \* SpecReg: the loader call made by the last step
    geoIn,       \* SpecGeo: the arguments drawn for an intersection function
    geoOut,      \* SpecGeo: the function applied to them and what it returned
    defIn,       \* SpecDef: the arguments drawn for a method of a joint definition
    defOut,      \* SpecDef: the method applied to them and what it returned
    frame,       \* SpecShared: the members of a document with two joints on one member
    jointObjs,   \* SpecShared: its TimberJoint objects, by name
    touching,    \* SpecShared: the joints that touched their members in the last recompute
    changes,     \* SpecShared: external edits made so far
    sharedOp,    \* SpecShared: the operation of the last step
    visited,     \* SpecShared: the documents the passes since the last create or edit started from
    bentObjs,    \* SpecBent: the Bent objects of a document, in document order
    memberIDs,   \* SpecBent: per TimberMember of that document, its MemberID
    bentOp       \* SpecBent: the Bent call made by the last step

vars ==
    <<ps, supplied, lastOp, member, joint, passes, edits, lastPass,
      registry, loaded, user_dir, regOp, geoIn, geoOut,
      defIn, defOut,
      frame, jointObjs, touching, changes, sharedOp, visited,
      bentObjs, memberIDs, bentOp>>

psVars == <<ps, supplied, lastOp>>

docVars == <<member, joint, passes, edits, lastPass>>

regVars == <<registry, loaded, user_dir, regOp>>

\* The variables a step on a ParameterSet, on the document, or on the
\* registry leaves alone.
geoVars == <<geoIn, geoOut>>

defVars == <<defIn, defOut>>

sharedVars == <<frame, jointObjs, touching, changes, sharedOp, visited>>

bentVars == <<bentObjs, memberIDs, bentOp>>

outsidePS == <<docVars, regVars, geoVars, defVars, sharedVars, bentVars>>

outsideDoc == <<psVars, regVars, geoVars, defVars, sharedVars, bentVars>>

outsideReg == <<psVars, docVars, geoVars, defVars, sharedVars, bentVars>>

outsideGeo == <<psVars, docVars, regVars, defVars, sharedVars, bentVars>>

outsideDef == <<psVars, docVars, regVars, geoVars, sharedVars, bentVars>>

outsideShared == <<psVars, docVars, regVars, geoVars, defVars, bentVars>>

outsideBent == <<psVars, docVars, regVars, geoVars, defVars, sharedVars>>

-----------------------------------------------------------------------------
(* Python values held by a JointParameter field.                           *)

PyNone == [k |-> "None", n |-> 0, s |-> ""]

PyInt(i) == [k |-> "int", n |-> i, s |-> ""]

PyFloat(tenths) == [k |-> "float", n |-> tenths, s |-> ""]

PyBool(b) == [k |-> "bool", n |-> IF b THEN 1 ELSE 0, s |-> ""]

PyStr(str) == [k |-> "str", n |-> 0, s |-> str]

\* The magnitude of a Python number in tenths, as the comparison operators
\* of set_override see it (an int compares with a float by value).
Mag(v) == IF v.k \in {"int", "bool"} THEN v.n * 10 ELSE v.n

PyLess(a, b) == Mag(a) < Mag(b)

-----------------------------------------------------------------------------
(* JointParameter and ParameterSet.                                        *)

JointParameter(name, param_type, default_value, value, min_value, max_value, enum_options, group, description) ==
    [name |-> name, param_type |-> param_type,
     default_value |-> default_value, value |-> value,
     is_overridden |-> FALSE,
     min_value |-> min_value, max_value |-> max_value,
     enum_options |-> enum_options, group |-> group,
     description |-> description]

\* ParameterSet.__init__: a dict keyed by name (a later parameter of the
\* same name replaces an earlier one) and the list of names in order.
ParameterSet(parameters) ==
    LET names == {parameters[i].name : i \in DOMAIN parameters}
        lastIdx(nm) == CHOOSE i \in DOMAIN parameters :
                          /\ parameters[i].name = nm
                          /\ \A j \in DOMAIN parameters :
                                parameters[j].name = nm => j <= i
    IN  [params |-> [nm \in names |-> parameters[lastIdx(nm)]],
         order  |-> [i \in DOMAIN parameters |-> parameters[i].name]]

Names(pset) == DOMAIN pset.params

\* ParameterSet.items: (name, JointParameter) pairs in definition order.
Items(pset) == [i \in DOMAIN pset.order |-> pset.params[pset.order[i]]]

set_override(pset, name, value) ==
    LET p  == pset.params[name]
        v1 == IF p.min_value.k # "None" /\ PyLess(value, p.min_value)
              THEN p.min_value ELSE value
        v2 == IF p.max_value.k # "None" /\ PyLess(p.max_value, v1)
              THEN p.max_value ELSE v1
    IN  [pset EXCEPT !.params[name].value = v2,
                     !.params[name].is_overridden = TRUE]

clear_override_keeps_value(pset, name) ==
    [pset EXCEPT !.params[name].is_overridden = FALSE]

clear_override(pset, name) ==
    [pset EXCEPT !.params[name].value = pset.params[name].default_value,
                 !.params[name].is_overridden = FALSE]

update_defaults_overwrites(pset, new_defaults) ==
    [pset EXCEPT !.params =
        [nm \in DOMAIN pset.params |->
            IF nm \in DOMAIN new_defaults
            THEN [pset.params[nm] EXCEPT !.default_value = new_defaults[nm],
                                         !.value = new_defaults[nm]]
            ELSE pset.params[nm]]]

update_defaults_skips_default(pset, new_defaults) ==
    [pset EXCEPT !.params =
        [nm \in DOMAIN pset.params |->
            IF nm \in DOMAIN new_defaults /\ ~pset.params[nm].is_overridden
            THEN [pset.params[nm] EXCEPT !.default_value = new_defaults[nm],
                                         !.value = new_defaults[nm]]
            ELSE pset.params[nm]]]

update_defaults(pset, new_defaults) ==
    [pset EXCEPT !.params =
        [nm \in DOMAIN pset.params |->
            IF nm \in DOMAIN new_defaults
            THEN [pset.params[nm] EXCEPT
                    !.default_value = new_defaults[nm],
                    !.value = IF pset.params[nm].is_overridden
                              THEN pset.params[nm].value
                              ELSE new_defaults[nm]]
            ELSE pset.params[nm]]]

-----------------------------------------------------------------------------
(* JSON serialization.  A JSON document is a sequence of objects; an       *)
(* object is a function from its keys to JSON values.                      *)

JNull == [j |-> "null", n |-> 0, s |-> "", a |-> <<>>]

JTrue == [j |-> "true", n |-> 0, s |-> "", a |-> <<>>]

JFalse == [j |-> "false", n |-> 0, s |-> "", a |-> <<>>]

JInt(i) == [j |-> "integer", n |-> i, s |-> "", a |-> <<>>]

JReal(tenths) == [j |-> "real", n |-> tenths, s |-> "", a |-> <<>>]

JString(str) == [j |-> "string", n |-> 0, s |-> str, a |-> <<>>]

JArray(elems) == [j |-> "array", n |-> 0, s |-> "", a |-> elems]

\* json.dumps of one Python value.
JsonEncode(v) ==
    CASE v.k = "None"  -> JNull
      [] v.k = "bool"  -> IF v.n = 1 THEN JTrue ELSE JFalse
      [] v.k = "int"   -> JInt(v.n)
      [] v.k = "float" -> JReal(v.n)
      [] v.k = "str"   -> JString(v.s)

\* json.loads of one JSON scalar.
JsonDecode(jv) ==
    CASE jv.j = "null"    -> PyNone
      [] jv.j = "true"    -> PyBool(TRUE)
      [] jv.j = "false"   -> PyBool(FALSE)
      [] jv.j = "integer" -> PyInt(jv.n)
      [] jv.j = "real"    -> PyFloat(jv.n)
      [] jv.j = "string"  -> PyStr(jv.s)

to_json(pset) ==
    [i \in DOMAIN pset.order |->
        LET p == pset.params[pset.order[i]]
        IN  [name          |-> JString(p.name),
             param_type    |-> JString(p.param_type),
             default_value |-> JsonEncode(p.default_value),
             value         |-> JsonEncode(p.value),
             is_overridden |-> JsonEncode(PyBool(p.is_overridden)),
             min_value     |-> JsonEncode(p.min_value),
             max_value     |-> JsonEncode(p.max_value),
             enum_options  |-> JArray([e \in DOMAIN p.enum_options |->
                                          JString(p.enum_options[e])]),
             group         |-> JString(p.group),
             description   |-> JString(p.description)]]

\* d.get(key, default) on a decoded JSON object.
DictGet(d, key, default) == IF key \in DOMAIN d THEN d[key] ELSE default

DecodeParameter(d) ==
    [name          |-> d["name"].s,
     param_type    |-> d["param_type"].s,
     default_value |-> JsonDecode(d["default_value"]),
     value         |-> JsonDecode(d["value"]),
     is_overridden |-> DictGet(d, "is_overridden", JFalse).j = "true",
     min_value     |-> JsonDecode(DictGet(d, "min_value", JNull)),
     max_value     |-> JsonDecode(DictGet(d, "max_value", JNull)),
     enum_options  |-> LET arr == DictGet(d, "enum_options", JArray(<<>>)).a
                       IN  [e \in DOMAIN arr |-> arr[e].s],
     group         |-> DictGet(d, "group", JString("General")).s,
     description   |-> DictGet(d, "description", JString("")).s]

from_json_drops_override(data) ==
    ParameterSet([i \in DOMAIN data |->
        [DecodeParameter(data[i]) EXCEPT !.is_overridden = FALSE]])

from_json(data) ==
    ParameterSet([i \in DOMAIN data |-> DecodeParameter(data[i])])

-----------------------------------------------------------------------------
(* Built-in joint definitions: parameter derivation.  primary and          *)
(* secondary are member records; Width and Height are in tenths of a mm.   *)

\* x * num / den for a float product such as sec_h * 0.75.
Frac(x, num, den) == (x * num) \div den

ThroughMortiseTenon_get_parameters(primary, secondary) ==
    LET sec_w == secondary.Width
        sec_h == secondary.Height
        pri_w == primary.Width
        clearance == 16
        tenon_width == sec_w \div 3
        tenon_height == Frac(sec_h, 3, 4)
        tenon_length == pri_w
        mortise_width == tenon_width + 2 * clearance
        mortise_height == tenon_height + 2 * clearance
        shoulder_depth == (sec_h - tenon_height) \div 2
        peg_diameter == 254
        peg_count == IF sec_h >= 1500 THEN 2 ELSE 1
        peg_edge_distance == Frac(peg_diameter, 5, 2)
        peg_spacing == IF peg_count > 1
                       THEN tenon_height - 2 * peg_edge_distance ELSE 0
        drawbore_offset == 32
    IN  ParameterSet(<<
          JointParameter("tenon_width", "length", PyFloat(tenon_width),
              PyFloat(tenon_width), PyFloat(200), PyFloat(Frac(sec_w, 9, 10)),
              <<>>, "Tenon", "Width of the tenon"),
          JointParameter("tenon_height", "length", PyFloat(tenon_height),
              PyFloat(tenon_height), PyFloat(200), PyFloat(Frac(sec_h, 9, 10)),
              <<>>, "Tenon", "Height of the tenon"),
          JointParameter("tenon_length", "length", PyFloat(tenon_length),
              PyFloat(tenon_length), PyFloat(Frac(pri_w, 1, 2)),
              PyFloat(Frac(pri_w, 3, 2)),
              <<>>, "Tenon", "Length of the tenon (through primary)"),
          JointParameter("mortise_width", "length", PyFloat(mortise_width),
              PyFloat(mortise_width), PyFloat(200), PyNone,
              <<>>, "Mortise", "Width of the mortise opening"),
          JointParameter("mortise_height", "length", PyFloat(mortise_height),
              PyFloat(mortise_height), PyFloat(200), PyNone,
              <<>>, "Mortise", "Height of the mortise opening"),
          JointParameter("shoulder_depth", "length", PyFloat(shoulder_depth),
              PyFloat(shoulder_depth), PyFloat(0), PyNone,
              <<>>, "Tenon", "Depth of the shoulder (top and bottom)"),
          JointParameter("peg_diameter", "length", PyFloat(peg_diameter),
              PyFloat(peg_diameter), PyFloat(120), PyFloat(380),
              <<>>, "Pegs", "Peg diameter"),
          JointParameter("peg_count", "integer", PyInt(peg_count),
              PyInt(peg_count), PyInt(0), PyInt(4),
              <<>>, "Pegs", "Number of pegs"),
          JointParameter("peg_spacing", "length", PyFloat(peg_spacing),
              PyFloat(peg_spacing), PyFloat(0), PyNone,
              <<>>, "Pegs", "Spacing between pegs"),
          JointParameter("peg_edge_distance", "length",
              PyFloat(peg_edge_distance), PyFloat(peg_edge_distance),
              PyFloat(Frac(peg_diameter, 3, 2)), PyNone,
              <<>>, "Pegs", "Minimum distance from peg to tenon edge"),
          JointParameter("drawbore_offset", "length", PyFloat(drawbore_offset),
              PyFloat(drawbore_offset), PyFloat(0), PyFloat(60),
              <<>>, "Pegs", "Drawbore offset (0 = no drawbore)")>>)

HalfLap_get_parameters(primary, secondary) ==
    LET pri_h == primary.Height
        pri_w == primary.Width
        sec_h == secondary.Height
        sec_w == secondary.Width
        clearance == 16
    IN  ParameterSet(<<
          JointParameter("lap_depth_primary", "length",
              PyFloat(pri_h \div 2), PyFloat(pri_h \div 2),
              PyFloat(Frac(pri_h, 1, 4)), PyFloat(Frac(pri_h, 3, 4)),
              <<>>, "Lap", "Depth of notch in primary member"),
          JointParameter("lap_depth_secondary", "length",
              PyFloat(sec_h \div 2), PyFloat(sec_h \div 2),
              PyFloat(Frac(sec_h, 1, 4)), PyFloat(Frac(sec_h, 3, 4)),
              <<>>, "Lap", "Depth of notch in secondary member"),
          JointParameter("lap_width_primary", "length",
              PyFloat(sec_w + clearance), PyFloat(sec_w + clearance),
              PyFloat(Frac(sec_w, 1, 2)), PyNone,
              <<>>, "Lap", "Width of notch in primary (accepts secondary)"),
          JointParameter("lap_width_secondary", "length",
              PyFloat(pri_w + clearance), PyFloat(pri_w + clearance),
              PyFloat(Frac(pri_w, 1, 2)), PyNone,
              <<>>, "Lap", "Width of notch in secondary (accepts primary)")>>)

\* tan(radians(14.0)) = 0.2493..., taken as 2493/10000.
Dovetail_get_parameters(primary, secondary) ==
    LET sec_w == secondary.Width
        sec_h == secondary.Height
        pri_w == primary.Width
        dovetail_angle == 140
        tail_height == Frac(sec_h, 1, 2)
        tail_width_narrow == Frac(sec_w, 6, 10)
        spread == Frac(2 * tail_height, 2493, 10000)
        tail_width_wide == tail_width_narrow + spread
        slot_depth == Frac(pri_w, 1, 2)
        shoulder_depth == (sec_h - tail_height) \div 2
        clearance == 16
    IN  ParameterSet(<<
          JointParameter("dovetail_angle", "angle", PyFloat(dovetail_angle),
              PyFloat(dovetail_angle), PyFloat(80), PyFloat(200),
              <<>>, "Dovetail", "Dovetail slope angle in degrees"),
          JointParameter("tail_width_narrow", "length",
              PyFloat(tail_width_narrow), PyFloat(tail_width_narrow),
              PyFloat(200), PyFloat(Frac(sec_w, 9, 10)),
              <<>>, "Dovetail", "Width at the narrow (surface) end"),
          JointParameter("tail_width_wide", "length",
              PyFloat(tail_width_wide), PyFloat(tail_width_wide),
              PyFloat(tail_width_narrow), PyNone,
              <<>>, "Dovetail", "Width at the wide (back) end"),
          JointParameter("tail_height", "length", PyFloat(tail_height),
              PyFloat(tail_height), PyFloat(200), PyFloat(Frac(sec_h, 8, 10)),
              <<>>, "Dovetail", "Height of the dovetail"),
          JointParameter("slot_depth", "length", PyFloat(slot_depth),
              PyFloat(slot_depth), PyFloat(Frac(pri_w, 1, 4)),
              PyFloat(Frac(pri_w, 3, 4)),
              <<>>, "Slot", "Depth of dovetail slot in primary member"),
          JointParameter("shoulder_depth", "length", PyFloat(shoulder_depth),
              PyFloat(shoulder_depth), PyFloat(0), PyNone,
              <<>>, "Dovetail", "Depth of shoulder above/below dovetail"),
          JointParameter("clearance", "length", PyFloat(clearance),
              PyFloat(clearance), PyFloat(0), PyFloat(30),
              <<>>, "Slot", "Clearance per side in slot"),
          JointParameter("channel_mode", "enumeration", PyStr("Through"),
              PyStr("Through"), PyNone, PyNone,
              <<"Through", "Half">>, "Slot",
              "Through = open both sides; Half = open toward nearer edge"),
          JointParameter("flip_channel", "boolean", PyBool(FALSE),
              PyBool(FALSE), PyNone, PyNone,
              <<>>, "Slot",
              "Reverse which side the half-channel opens toward")>>)

\* The registry after load_all with the built-in directory only.
BuiltinIds == {"through_mortise_tenon", "half_lap", "dovetail"}

\* definition.get_parameters(primary, secondary, joint_cs) of a built-in.
get_parameters(id, primary, secondary) ==
    CASE id = "through_mortise_tenon" ->
            ThroughMortiseTenon_get_parameters(primary, secondary)
      [] id = "half_lap" -> HalfLap_get_parameters(primary, secondary)
      [] id = "dovetail" -> Dovetail_get_parameters(primary, secondary)

-----------------------------------------------------------------------------
(* Intersection geometry.  Points are integer triples in centimetres; the  *)
(* segment parameters are exact fractions [n, d]; a distance is carried as *)
(* its square and an angle as whole degrees, rounded down.                 *)

Abs(x) == IF x < 0 THEN -x ELSE x

RECURSIVE GCD(_, _)
GCD(x, y) == IF y = 0 THEN x ELSE GCD(y, x % y)

\* The fraction n/d in lowest terms with a positive denominator.
Rat(n, d) ==
    LET g   == GCD(Abs(n), Abs(d))
        sgn == IF d < 0 THEN -1 ELSE 1
    IN  [n |-> (sgn * n) \div g, d |-> (sgn * d) \div g]

Zero == [n |-> 0, d |-> 1]

One == [n |-> 1, d |-> 1]

\* max(0.0, min(1.0, x))
Clamp01(x) == IF x.n < 0 THEN Zero ELSE IF x.n > x.d THEN One ELSE x

Sub(p, q) == <<p[1] - q[1], p[2] - q[2], p[3] - q[3]>>

Dot(p, q) == p[1] * q[1] + p[2] * q[2] + p[3] * q[3]

Cross(p, q) ==
    <<p[2] * q[3] - p[3] * q[2], p[3] * q[1] - p[1] * q[3],
      p[1] * q[2] - p[2] * q[1]>>

\* 12.7 mm, in tenths of a mm.
INTERSECTION_TOLERANCE == 127

MIN_ANGLE_DEGREES == 5

\* The result of closest_approach_segments for the clamped parameters s, t:
\* pt1 = p1 + u * s and pt2 = p2 + v * t over the denominator s.d * t.d.
approach_result(n1, n2, dd, s, t) ==
    [pt1 |-> [n |-> n1, d |-> dd],
     pt2 |-> [n |-> n2, d |-> dd],
     distSq |-> Rat(Dot(Sub(n1, n2), Sub(n1, n2)), dd * dd),
     t1 |-> s,
     t2 |-> t]

approach_points(p1, u, p2, v, s, t) ==
    approach_result([i \in 1..3 |-> (p1[i] * s.d + u[i] * s.n) * t.d],
                    [i \in 1..3 |-> (p2[i] * t.d + v[i] * t.n) * s.d],
                    s.d * t.d, s, t)

\* s recomputed from the clamped t.
approach_s(p1, u, p2, v, a, b, d_val, t) ==
    approach_points(p1, u, p2, v,
        Clamp01(IF a > 0 THEN Rat(b * t.n - d_val * t.d, t.d * a) ELSE Zero),
        t)

\* A t left at the start of the second segment, not taken from the clamped s.
approach_t_at_start(p1, u, p2, v, a, b, c, d_val, e, s) ==
    approach_s(p1, u, p2, v, a, b, d_val, Zero)

\* t from the clamped s.
approach_t(p1, u, p2, v, a, b, c, d_val, e, s) ==
    approach_s(p1, u, p2, v, a, b, d_val,
        Clamp01(IF c > 0 THEN Rat(b * s.n + e * s.d, s.d * c) ELSE Zero))

\* s of the infinite lines; denom < 1e-10 is denom = 0 on integers.
approach_lines(p1, u, p2, v, a, b, c, d_val, e) ==
    approach_t(p1, u, p2, v, a, b, c, d_val, e,
        Clamp01(IF a * c - b * b <= 0 THEN Zero
                ELSE Rat(b * e - c * d_val, a * c - b * b)))

approach_dots(p1, u, p2, v, w) ==
    approach_lines(p1, u, p2, v, Dot(u, u), Dot(u, v), Dot(v, v), Dot(u, w),
                   Dot(v, w))

closest_approach_segments(p1, d1, p2, d2) ==
    approach_dots(p1, Sub(d1, p1), p2, Sub(d2, p2), Sub(p1, p2))

\* dist > INTERSECTION_TOLERANCE, for dist in cm given by its square.
BeyondTolerance(distSq) ==
    distSq.n * 10000 > INTERSECTION_TOLERANCE * INTERSECTION_TOLERANCE * distSq.d

\* (pt1 + pt2) * 0.5
Midpoint(pt1, pt2) ==
    [n |-> [i \in 1..3 |-> pt1.n[i] + pt2.n[i]], d |-> 2 * pt1.d]

\* cos(theta)^2 * 10000 for theta = 0, 1, ..., 90 degrees.
CosSqTable ==
    <<10000, 9997, 9988, 9973, 9951, 9924, 9891, 9851, 9806, 9755, 9698, 9636, 9568,
      9494, 9415, 9330, 9240, 9145, 9045, 8940, 8830, 8716, 8597, 8473, 8346, 8214,
      8078, 7939, 7796, 7650, 7500, 7347, 7192, 7034, 6873, 6710, 6545, 6378, 6210,
      6040, 5868, 5696, 5523, 5349, 5174, 5000, 4826, 4651, 4477, 4304, 4132, 3960,
      3790, 3622, 3455, 3290, 3127, 2966, 2808, 2653, 2500, 2350, 2204, 2061, 1922,
      1786, 1654, 1527, 1403, 1284, 1170, 1060, 955, 855, 760, 670, 585, 506,
      432, 364, 302, 245, 194, 149, 109, 76, 49, 27, 12, 3, 0>>

\* degrees(acos(abs(cos_angle))) rounded down, for cos_angle^2 = num / den.
AngleDeg(num, den) ==
    LET fits == {th \in 0..90 : CosSqTable[th + 1] * den >= num * 10000}
    IN  CHOOSE th \in fits : \A other \in fits : other <= th

NoJointCS ==
    [valid |-> FALSE, origin |-> [n |-> <<0, 0, 0>>, d |-> 1],
     primary_axis |-> <<0, 0, 0>>, secondary_axis |-> <<0, 0, 0>>,
     normal |-> <<0, 0, 0>>, angle |-> 0]

\* A compute_joint_cs without the minimum-angle test.
compute_joint_cs_any_angle(primary_obj, secondary_obj, intersection_point) ==
    LET p_dir == Sub(primary_obj.B_EndPoint, primary_obj.A_StartPoint)
        s_dir == Sub(secondary_obj.B_EndPoint, secondary_obj.A_StartPoint)
    IN  IF Dot(p_dir, p_dir) = 0 \/ Dot(s_dir, s_dir) = 0 THEN NoJointCS
        ELSE [valid |-> TRUE, origin |-> intersection_point,
              primary_axis |-> p_dir, secondary_axis |-> s_dir,
              normal |-> Cross(p_dir, s_dir),
              angle |-> AngleDeg(Dot(p_dir, s_dir) * Dot(p_dir, s_dir),
                                 Dot(p_dir, p_dir) * Dot(s_dir, s_dir))]

\* The axes are carried as the datum directions, not normalized.
compute_joint_cs(primary_obj, secondary_obj, intersection_point) ==
    LET p_dir == Sub(primary_obj.B_EndPoint, primary_obj.A_StartPoint)
        s_dir == Sub(secondary_obj.B_EndPoint, secondary_obj.A_StartPoint)
        p_sq  == Dot(p_dir, p_dir)
        s_sq  == Dot(s_dir, s_dir)
        cs    == Dot(p_dir, s_dir)
        angle_deg == AngleDeg(cs * cs, p_sq * s_sq)
        cross == Cross(p_dir, s_dir)
        up_hint == IF p_dir[1] = 0 /\ p_dir[2] = 0
                   THEN <<0, 1, 0>> ELSE <<0, 0, 1>>
        normal == IF cross = <<0, 0, 0>>
                  THEN Cross(Cross(p_dir, up_hint), p_dir) ELSE cross
    IN  IF p_sq = 0 \/ s_sq = 0 THEN NoJointCS
        ELSE IF angle_deg < MIN_ANGLE_DEGREES THEN NoJointCS
        ELSE [valid |-> TRUE, origin |-> intersection_point,
              primary_axis |-> p_dir, secondary_axis |-> s_dir,
              normal |-> normal, angle |-> angle_deg]

-----------------------------------------------------------------------------
(* SpecPS: the ParameterSet calls applied to a set produced by a built-in  *)
(* get_parameters, or to a hand-built set.                                 *)

\* Member cross-sections (Width, Height) the model draws from, in tenths of
\* a mm: the TimberMember defaults 150 x 200, and smaller and larger ones.
PrimaryDims ==
    {[Width |-> 1500, Height |-> 2000], [Width |-> 2400, Height |-> 1600]}

SecondaryDims ==
    {[Width |-> 1500, Height |-> 2000], [Width |-> 900, Height |-> 1400],
     [Width |-> 210, Height |-> 1600]}

\* A hand-built set: a length with bounds [10, 50] and default 20, and an
\* unbounded integer.
ExampleSet ==
    ParameterSet(<<
        JointParameter("length", "length", PyFloat(200), PyFloat(200),
            PyFloat(100), PyFloat(500), <<>>, "General", ""),
        JointParameter("count", "integer", PyInt(3), PyInt(3),
            PyNone, PyNone, <<>>, "General", "")>>)

InitialSets ==
    {get_parameters(id, pri, sec) :
        id \in BuiltinIds, pri \in PrimaryDims, sec \in SecondaryDims}
    \cup {ExampleSet}

\* The parameters the model overrides.
OverrideNames ==
    {"tenon_width", "peg_count", "lap_depth_primary", "lap_width_primary",
     "slot_depth", "channel_mode", "flip_channel", "length", "count"}

\* The values a caller passes to set_override for a parameter.
OverrideValues(p) ==
    CASE p.param_type \in {"length", "angle"} ->
            {PyFloat(50), PyFloat(700), PyFloat(3000)}
      [] p.param_type = "integer" -> {PyInt(-1), PyInt(3), PyInt(7)}
      [] p.param_type = "boolean" -> {PyBool(TRUE)}
      [] p.param_type = "enumeration" ->
            {PyStr(p.enum_options[e]) : e \in DOMAIN p.enum_options}

DefaultsOf(pset) == [nm \in Names(pset) |-> pset.params[nm].default_value]

\* The dicts passed to update_defaults: the defaults a definition derives
\* from other member dimensions, and a dict naming an unknown parameter.
DefaultInputs ==
    {DefaultsOf(get_parameters(id, pri, sec)) :
        id \in BuiltinIds, pri \in PrimaryDims,
        sec \in {d \in SecondaryDims : d.Width = 900}}
    \cup {[nm \in {"length", "unknown"} |-> PyFloat(900)]}

NoOp == [op |-> "init", name |-> "", value |-> PyNone, defaults |-> <<>>]

InitPS ==
    /\ ps \in InitialSets
    /\ supplied = DefaultsOf(ps)
    /\ lastOp = NoOp
    /\ member = <<>>
    /\ joint = <<>>
    /\ passes = 0
    /\ edits = 0
    /\ lastPass = <<>>
    /\ registry = <<>>
    /\ loaded = FALSE
    /\ user_dir = <<>>
    /\ regOp = <<>>
    /\ geoIn = <<>>
    /\ geoOut = <<>>
    /\ defIn = <<>>
    /\ defOut = <<>>
    /\ frame = <<>>
    /\ jointObjs = <<>>
    /\ touching = {}
    /\ changes = 0
    /\ sharedOp = ""
    /\ visited = {}
    /\ bentObjs = <<>>
    /\ memberIDs = <<>>
    /\ bentOp = <<>>

SetOverride ==
    \E nm \in Names(ps) \cap OverrideNames :
        \E v \in OverrideValues(ps.params[nm]) :
            /\ ps' = set_override(ps, nm, v)
            /\ lastOp' = [op |-> "set_override", name |-> nm, value |-> v,
                          defaults |-> <<>>]
            /\ UNCHANGED <<supplied, outsidePS>>

ClearOverride ==
    \E nm \in Names(ps) :
        /\ ps' = clear_override(ps, nm)
        /\ lastOp' = [op |-> "clear_override", name |-> nm, value |-> PyNone,
                      defaults |-> <<>>]
        /\ UNCHANGED <<supplied, outsidePS>>

UpdateDefaults ==
    \E nd \in DefaultInputs :
        /\ ps' = update_defaults(ps, nd)
        /\ supplied' = [nm \in DOMAIN supplied |->
                           IF nm \in DOMAIN nd THEN nd[nm] ELSE supplied[nm]]
        /\ lastOp' = [op |-> "update_defaults", name |-> "", value |-> PyNone,
                      defaults |-> nd]
        /\ UNCHANGED outsidePS

RoundTrip ==
    /\ ps' = from_json(to_json(ps))
    /\ lastOp' = [op |-> "round_trip", name |-> "", value |-> PyNone,
                  defaults |-> <<>>]
    /\ UNCHANGED <<supplied, outsidePS>>

NextPS == SetOverride \/ ClearOverride \/ UpdateDefaults \/ RoundTrip

SpecPS == InitPS /\ [][NextPS]_vars

-----------------------------------------------------------------------------
(* Properties of the parameter model, checked under SpecPS.                *)

\* The fields of a parameter that no ParameterSet call writes.
SameDeclaration(p, q) ==
    /\ q.name = p.name
    /\ q.param_type = p.param_type
    /\ q.min_value = p.min_value
    /\ q.max_value = p.max_value
    /\ q.enum_options = p.enum_options
    /\ q.group = p.group
    /\ q.description = p.description

\* C1: update_defaults(new_defaults) sets default_value of every named
\* parameter of the set to the supplied value; the effective value takes the
\* supplied value when the parameter is not overridden and is kept, with the
\* is_overridden flag, when it is; names not in the set are ignored and
\* parameters not named are left unchanged.
C1_UpdateDefaults ==
    [][lastOp'.op = "update_defaults" =>
        /\ Names(ps') = Names(ps)
        /\ ps'.order = ps.order
        /\ \A nm \in Names(ps) :
              LET p  == ps.params[nm]
                  q  == ps'.params[nm]
                  nd == lastOp'.defaults
              IN  IF nm \in DOMAIN nd
                  THEN /\ q.default_value = nd[nm]
                       /\ q.is_overridden = p.is_overridden
                       /\ q.value = IF p.is_overridden THEN p.value ELSE nd[nm]
                       /\ SameDeclaration(p, q)
                  ELSE q = p]_vars

C1_Witness ==
    /\ lastOp.op = "update_defaults"
    /\ \E nm \in Names(ps) \cap DOMAIN lastOp.defaults :
          /\ ps.params[nm].is_overridden
          /\ ps.params[nm].value # ps.params[nm].default_value
    /\ DOMAIN lastOp.defaults \ Names(ps) # {}
    /\ Names(ps) \ DOMAIN lastOp.defaults # {}

\* C2: in every state reached through set_override, clear_override and
\* update_defaults, a parameter that is not overridden has value equal to
\* default_value.
C2_DerivedValueIsDefault ==
    \A nm \in Names(ps) :
        ~ps.params[nm].is_overridden =>
            ps.params[nm].value = ps.params[nm].default_value

C2_Witness ==
    /\ lastOp.op = "clear_override"
    /\ ps.params[lastOp.name].default_value # get_parameters(
          "half_lap", [Width |-> 1500, Height |-> 2000],
          [Width |-> 1500, Height |-> 2000]).params["lap_depth_primary"].value
    /\ lastOp.name = "lap_depth_primary"
    /\ \E nm \in Names(ps) : ps.params[nm].is_overridden

WithinBounds(p) ==
    /\ p.min_value.k # "None" => ~PyLess(p.value, p.min_value)
    /\ p.max_value.k # "None" => ~PyLess(p.max_value, p.value)

\* C3: every parameter that has a min_value and/or max_value has its
\* effective value within [min_value, max_value], in every state reached
\* from a built-in get_parameters through set_override, clear_override and
\* update_defaults.
C3_ValueWithinBounds ==
    \A nm \in Names(ps) : WithinBounds(ps.params[nm])

\* max(min_value, min(max_value, value)) over the bounds that are present.
ClaimedClamp(p, value) ==
    LET upper == IF p.max_value.k # "None" /\ PyLess(p.max_value, value)
                 THEN p.max_value ELSE value
    IN  IF p.min_value.k # "None" /\ PyLess(upper, p.min_value)
        THEN p.min_value ELSE upper

\* C8: set_override(name, value) stores max(min_value, min(max_value, value))
\* over the bounds that are present as the effective value, sets
\* is_overridden, and leaves default_value and every other parameter
\* unchanged.
C8_SetOverrideClamps ==
    [][lastOp'.op = "set_override" =>
        /\ Names(ps') = Names(ps)
        /\ ps'.order = ps.order
        /\ \A nm \in Names(ps) :
              LET p == ps.params[nm]
                  q == ps'.params[nm]
              IN  IF nm = lastOp'.name
                  THEN /\ q.value = ClaimedClamp(p, lastOp'.value)
                       /\ q.is_overridden
                       /\ q.default_value = p.default_value
                       /\ SameDeclaration(p, q)
                  ELSE q = p]_vars

\* C9: clear_override(name) leaves value equal to default_value and
\* is_overridden false, default_value being the default most recently
\* supplied (by the constructor or by update_defaults, also while the
\* override was active); a second clear_override changes nothing more.
C9_ClearOverrideRestores ==
    [][lastOp'.op = "clear_override" =>
        LET nm == lastOp'.name
            q  == ps'.params[nm]
        IN  /\ q.value = q.default_value
            /\ ~q.is_overridden
            /\ q.default_value = supplied'[nm]
            /\ \A other \in Names(ps) \ {nm} :
                  ps'.params[other] = ps.params[other]
            /\ clear_override(ps', nm) = ps']_vars

C9_Witness ==
    /\ lastOp.op = "clear_override"
    /\ lastOp.name = "length"
    /\ ps.params["length"].value = PyFloat(900)
    /\ ps.params["count"].is_overridden

\* C10: for every ParameterSet, also one mixing overridden and derived
\* parameters, from_json(to_json(ps)) has the same parameters in the same
\* order with every field equal, and serializing it again gives the same
\* JSON document.
C10_RoundTrip ==
    /\ from_json(to_json(ps)) = ps
    /\ to_json(from_json(to_json(ps))) = to_json(ps)

C10_Witness ==
    /\ lastOp.op = "round_trip"
    /\ \E nm \in Names(ps) :
          ps.params[nm].is_overridden /\ ps.params[nm].param_type = "enumeration"
    /\ \E nm \in Names(ps) :
          ps.params[nm].is_overridden /\ ps.params[nm].param_type = "boolean"
    /\ \E nm \in Names(ps) : ~ps.params[nm].is_overridden

-----------------------------------------------------------------------------
(* Shapes.  A solid is identified by the inputs its builder reads: the     *)
(* parameter values in the order they are read, the sections and datum     *)
(* ends of the two members, and the origin of the joint coordinate system. *)
(* The datum ends of a member are named as TimberJoint reads them.         *)

Facts(obj) ==
    [Width |-> obj.Width, Height |-> obj.Height,
     A_StartPoint |-> obj.A_StartPoint, B_EndPoint |-> obj.B_EndPoint]

NoFacts ==
    [Width |-> 0, Height |-> 0,
     A_StartPoint |-> <<0, 0, 0>>, B_EndPoint |-> <<0, 0, 0>>]

Solid(kind, def, vals, primary, secondary, origin) ==
    [kind |-> kind, def |-> def, vals |-> vals,
     pri |-> primary, sec |-> secondary, origin |-> origin]

\* Part.Shape()
NullShape == Solid("null", "", <<>>, NoFacts, NoFacts, NoJointCS.origin)

\* Part.makeBox(1, 1, 1)
UnitBox == Solid("box", "", <<>>, NoFacts, NoFacts, NoJointCS.origin)

isNull(shape) == shape.kind = "null"

\* ParameterSet.get
Get(params, name) == params.params[name].value

\* The names build_primary_tool reads, per definition.
PrimaryReads(id) ==
    CASE id = "through_mortise_tenon" -> <<"mortise_width", "mortise_height">>
      [] id = "half_lap" -> <<"lap_depth_primary", "lap_width_primary">>
      [] id = "dovetail" ->
            <<"clearance", "tail_width_narrow", "tail_width_wide",
              "slot_depth", "channel_mode", "flip_channel">>

\* The names build_secondary_profile reads, per definition.
SecondaryReads(id) ==
    CASE id = "through_mortise_tenon" ->
            <<"tenon_width", "tenon_height", "tenon_length", "shoulder_depth">>
      [] id = "half_lap" -> <<"lap_depth_secondary", "lap_width_secondary">>
      [] id = "dovetail" ->
            <<"tail_width_narrow", "tail_width_wide", "tail_height",
              "slot_depth">>

build_primary_tool(id, params, primary, secondary, joint_cs) ==
    LET reads == PrimaryReads(id)
    IN  Solid("primary_tool", id,
              [i \in DOMAIN reads |-> Get(params, reads[i])],
              Facts(primary), Facts(secondary), joint_cs.origin)

build_secondary_profile(id, params, primary, secondary, joint_cs) ==
    LET reads == SecondaryReads(id)
        vals  == [i \in DOMAIN reads |-> Get(params, reads[i])]
    IN  [tenon_shape  |-> Solid("tenon", id, vals, Facts(primary),
                                Facts(secondary), joint_cs.origin),
         shoulder_cut |-> Solid("shoulder_cut", id, vals, Facts(primary),
                                Facts(secondary), joint_cs.origin)]

\* int(x)
IntOf(v) ==
    IF v.k = "float"
    THEN IF v.n >= 0 THEN v.n \div 10 ELSE -((-v.n) \div 10)
    ELSE v.n

\* Only the through mortise and tenon overrides build_pegs; the base class
\* returns [].  offset_z is -spacing / 2 + i * spacing / (count - 1).
build_pegs(id, params, primary, secondary, joint_cs) ==
    IF id # "through_mortise_tenon" THEN <<>>
    ELSE LET count   == IntOf(Get(params, "peg_count"))
             spacing == Mag(Get(params, "peg_spacing"))
         IN  IF count <= 0 THEN <<>>
             ELSE [i \in 1..count |->
                     [off_z    |-> IF count = 1 THEN Zero
                                   ELSE Rat(spacing * (2 * (i - 1) - (count - 1)),
                                            2 * (count - 1)),
                      diameter |-> Get(params, "peg_diameter"),
                      length   |-> primary.Width + 200,
                      offset   |-> Get(params, "drawbore_offset")]]

\* Part.makeCylinder rejects a radius or a height that is not positive.
CylinderBuilt(peg) == Mag(peg.diameter) > 0 /\ peg.length > 0

MIN_ANGLE(id) ==
    CASE id = "through_mortise_tenon" -> 45
      [] id = "half_lap" -> 60
      [] id = "dovetail" -> 75

MAX_ANGLE(id) ==
    CASE id = "through_mortise_tenon" -> 135
      [] id = "half_lap" -> 120
      [] id = "dovetail" -> 105

\* The checks of a validate method, in order; the results are those that
\* fire, as (level, code).
Fired(checks) ==
    LET kept == SelectSeq(checks, LAMBDA c : c.on)
    IN  [i \in DOMAIN kept |-> [level |-> kept[i].level, code |-> kept[i].code]]

\* An angle test that only looks below the range.
angle_out_of_range_below_only(id, angle) == angle < MIN_ANGLE(id)

\* joint_cs.angle < self.MIN_ANGLE or joint_cs.angle > self.MAX_ANGLE
angle_out_of_range(id, angle) ==
    angle < MIN_ANGLE(id) \/ angle > MAX_ANGLE(id)

validate(id, params, primary, secondary, joint_cs) ==
    LET angle_out == [on |-> angle_out_of_range(id, joint_cs.angle),
                      level |-> "error", code |-> "ANGLE_OUT_OF_RANGE"]
    IN  CASE id = "through_mortise_tenon" ->
              Fired(<<
                [on |-> Mag(Get(params, "tenon_height")) * 10
                            > secondary.Height * 8,
                 level |-> "warning", code |-> "TENON_TOO_TALL"],
                [on |-> secondary.Width - Mag(Get(params, "tenon_width")) < 200,
                 level |-> "error", code |-> "CHEEK_TOO_THIN"],
                [on |-> 2 * Mag(Get(params, "peg_edge_distance"))
                            < 3 * Mag(Get(params, "peg_diameter")),
                 level |-> "warning", code |-> "PEG_EDGE_DISTANCE"],
                angle_out>>)
          [] id = "half_lap" ->
              Fired(<<
                [on |-> Mag(Get(params, "lap_depth_primary")) * 10
                            > primary.Height * 6,
                 level |-> "warning", code |-> "LAP_TOO_DEEP"],
                [on |-> Mag(Get(params, "lap_depth_secondary")) * 10
                            > secondary.Height * 6,
                 level |-> "warning", code |-> "LAP_TOO_DEEP"],
                angle_out>>)
          [] id = "dovetail" ->
              Fired(<<
                [on |-> Mag(Get(params, "tail_height")) * 10
                            > secondary.Height * 7,
                 level |-> "warning", code |-> "DOVETAIL_TOO_TALL"],
                [on |-> Mag(Get(params, "tail_width_narrow")) * 10
                            > secondary.Width * 8,
                 level |-> "warning", code |-> "DOVETAIL_TOO_WIDE"],
                [on |-> Mag(Get(params, "slot_depth")) * 10
                            > primary.Width * 6,
                 level |-> "warning", code |-> "SLOT_TOO_DEEP"],
                angle_out>>)

-----------------------------------------------------------------------------
(* Intersection detection for a pair of members, and the registry.         *)

Members == {"M1", "M2"}

\* A link property holding None.
NoMember == "None"

\* t <= ENDPOINT_THRESHOLD or t >= 1.0 - ENDPOINT_THRESHOLD, for 0.02.
IsEndpoint(t) == t.n * 50 <= t.d \/ t.n * 50 >= 49 * t.d

classify_intersection(t1, t2) ==
    LET ep1 == IsEndpoint(t1)
        ep2 == IsEndpoint(t2)
    IN  IF ep1 /\ ep2 THEN "EndpointToEndpoint"
        ELSE IF ep1 \/ ep2 THEN "EndpointToMidpoint"
        ELSE "MidpointToMidpoint"

\* x <= y for fractions with positive denominators.
Leq(x, y) == x.n * y.d <= y.n * x.d

\* (t <= threshold) or (t >= 1.0 - threshold)
AtEnd(t, threshold) ==
    \/ Leq(t, threshold)
    \/ Leq(Rat(threshold.d - threshold.n, threshold.d), t)

\* A classification that calls an intersection with one end an
\* EndpointToEndpoint.
classify_with_threshold_either(t1, t2, threshold) ==
    IF AtEnd(t1, threshold) \/ AtEnd(t2, threshold) THEN "EndpointToEndpoint"
    ELSE "MidpointToMidpoint"

\* classify_intersection(t1, t2, threshold)
classify_with_threshold(t1, t2, threshold) ==
    LET ep1 == AtEnd(t1, threshold)
        ep2 == AtEnd(t2, threshold)
    IN  IF ep1 /\ ep2 THEN "EndpointToEndpoint"
        ELSE IF ep1 \/ ep2 THEN "EndpointToMidpoint"
        ELSE "MidpointToMidpoint"

\* An assignment by cross-section area alone.
assign_primary_secondary_by_area(mem, obj_a, obj_b, intersection_type, t_a, t_b) ==
    IF mem[obj_a].Width * mem[obj_a].Height
          >= mem[obj_b].Width * mem[obj_b].Height
    THEN [primary |-> obj_a, secondary |-> obj_b]
    ELSE [primary |-> obj_b, secondary |-> obj_a]

\* The pair (primary, secondary) as a record of member names.
assign_primary_secondary(mem, obj_a, obj_b, intersection_type, t_a, t_b) ==
    LET area_a == mem[obj_a].Width * mem[obj_a].Height
        area_b == mem[obj_b].Width * mem[obj_b].Height
        a_b    == [primary |-> obj_a, secondary |-> obj_b]
        b_a    == [primary |-> obj_b, secondary |-> obj_a]
    IN  IF intersection_type = "EndpointToMidpoint"
        THEN IF IsEndpoint(t_a) THEN b_a ELSE a_b
        ELSE IF area_a >= area_b THEN a_b ELSE b_a

NoResult ==
    [found |-> FALSE, primary_obj |-> NoMember, secondary_obj |-> NoMember,
     point |-> NoJointCS.origin, intersection_type |-> ""]

\* _test_pair, once the pair is assigned: None for near-parallel datums.
pair_assigned(mem, ca, itype, pair) ==
    IF ~compute_joint_cs(mem[pair.primary], mem[pair.secondary],
                         Midpoint(ca.pt1, ca.pt2)).valid
    THEN NoResult
    ELSE [found |-> TRUE, primary_obj |-> pair.primary,
          secondary_obj |-> pair.secondary,
          point |-> Midpoint(ca.pt1, ca.pt2), intersection_type |-> itype]

pair_classified(mem, obj_a, obj_b, ca, itype) ==
    pair_assigned(mem, ca, itype,
        assign_primary_secondary(mem, obj_a, obj_b, itype, ca.t1, ca.t2))

\* _test_pair, for the closest approach ca of the two datums.
pair_at(mem, obj_a, obj_b, ca) ==
    IF BeyondTolerance(ca.distSq) THEN NoResult
    ELSE pair_classified(mem, obj_a, obj_b, ca,
                         classify_intersection(ca.t1, ca.t2))

\* _test_pair with tolerance INTERSECTION_TOLERANCE.
test_pair(mem, obj_a, obj_b) ==
    pair_at(mem, obj_a, obj_b,
        closest_approach_segments(
            mem[obj_a].A_StartPoint, mem[obj_a].B_EndPoint,
            mem[obj_b].A_StartPoint, mem[obj_b].B_EndPoint))

\* A _joint_exists_for_pair that looks for the link in one order only.
joint_exists_for_pair_ordered(joints, obj_a, obj_b) ==
    \E jt \in joints : jt.PrimaryMember = obj_a /\ jt.SecondaryMember = obj_b

\* _joint_exists_for_pair, for the TimberJoint objects of the document.
joint_exists_for_pair(joints, obj_a, obj_b) ==
    \E jt \in joints :
        \/ jt.PrimaryMember = obj_a /\ jt.SecondaryMember = obj_b
        \/ jt.PrimaryMember = obj_b /\ jt.SecondaryMember = obj_a

\* The index pairs (i, j), i < j, of detect_intersections' two loops, in
\* the order the loops visit them.
RECURSIVE loop_pairs(_, _, _)
loop_pairs(i, j, n) ==
    IF i >= n THEN <<>>
    ELSE IF j > n THEN loop_pairs(i + 1, i + 2, n)
    ELSE <<(<<i, j>>)>> \o loop_pairs(i, j + 1, n)

\* The results appended for the index pairs given.
RECURSIVE detect_pairs(_, _, _, _)
detect_pairs(mem, members, joints, pairs) ==
    IF pairs = <<>> THEN <<>>
    ELSE LET a == members[Head(pairs)[1]]
             b == members[Head(pairs)[2]]
             rest == detect_pairs(mem, members, joints, Tail(pairs))
         IN  IF joint_exists_for_pair(joints, a, b) THEN rest
             ELSE IF ~test_pair(mem, a, b).found THEN rest
             ELSE <<test_pair(mem, a, b)>> \o rest

\* detect_intersections(doc) with the default tolerance: members is the list
\* of the document's TimberMember objects, mem their properties.
detect_intersections(mem, members, joints) ==
    detect_pairs(mem, members, joints, loop_pairs(1, 2, Len(members)))

DEFAULT_JOINT_TYPES ==
    [t \in {"EndpointToMidpoint", "MidpointToMidpoint", "EndpointToEndpoint"}
        |-> CASE t = "EndpointToMidpoint" -> "through_mortise_tenon"
              [] t = "MidpointToMidpoint" -> "half_lap"
              [] t = "EndpointToEndpoint" -> "scarf_bladed"]

\* DEFAULT_JOINT_TYPES.get(intersection_type, "through_mortise_tenon")
DefaultJointType(intersection_type) ==
    IF intersection_type \in DOMAIN DEFAULT_JOINT_TYPES
    THEN DEFAULT_JOINT_TYPES[intersection_type]
    ELSE "through_mortise_tenon"

NoDefinition == "None"

\* _registry.get(joint_type_id); a definition is named by its id.
get_definition(joint_type_id) ==
    IF joint_type_id \in BuiltinIds THEN joint_type_id ELSE NoDefinition

-----------------------------------------------------------------------------
(* Document objects.  A string property holding JSON is "empty" (the empty *)
(* string), "json" (a document) or "garbage" (text json.loads rejects).    *)

EmptyText == [text |-> "empty", doc |-> <<>>]

JsonText(doc) == [text |-> "json", doc |-> doc]

GarbageText == [text |-> "garbage", doc |-> <<>>]

\* ParameterSet.from_json raises: json.loads fails, or an entry lacks one of
\* the keys read with d[...].
from_json_raises(str) ==
    \/ str.text = "garbage"
    \/ \E i \in DOMAIN str.doc :
          ~({"name", "param_type", "default_value", "value"}
                \subseteq DOMAIN str.doc[i])

\* The joint's Shape: the unit box, or a compound of the tenon and the peg
\* cylinders.
BoxShape == [box |-> TRUE, parts |-> <<>>, pegs |-> <<>>]

makeCompound(parts, pegs) == [box |-> FALSE, parts |-> parts, pegs |-> pegs]

\* _recompute_joint step 3: the stored set if its names are the fresh names,
\* with its defaults updated; the fresh set otherwise.
derive_params_always_fresh(Parameters, fresh) == fresh

derive_params_carries_overrides(Parameters, fresh) ==
    IF Parameters.text = "empty" THEN fresh
    ELSE LET params == from_json(Parameters.doc)
         IN  IF Names(params) # Names(fresh)
             THEN [fresh EXCEPT !.params =
                     [nm \in Names(fresh) |->
                         IF nm \in Names(params) /\ params.params[nm].is_overridden
                         THEN [fresh.params[nm] EXCEPT
                                 !.value = params.params[nm].value,
                                 !.is_overridden = TRUE]
                         ELSE fresh.params[nm]]]
             ELSE update_defaults(params, DefaultsOf(fresh))

derive_params(Parameters, fresh) ==
    IF Parameters.text = "empty" THEN fresh
    ELSE LET params == from_json(Parameters.doc)
         IN  IF Names(params) # Names(fresh) THEN fresh
             ELSE update_defaults(params, DefaultsOf(fresh))

\* Which arm of step 3 is taken.
ParamsBranch(Parameters, fresh) ==
    IF Parameters.text = "empty" THEN "fresh"
    ELSE IF Names(from_json(Parameters.doc)) # Names(fresh) THEN "replaced"
    ELSE "refreshed"

\* The _skip_touch guard: whether the members are touched, and the flag
\* afterwards.
touch_guard_always(skip_touch) == [touch |-> TRUE, skip_touch |-> TRUE]

\* A guard that touches when the flag is clear and never writes the flag.
touch_guard_keeps_flag(skip_touch) ==
    [touch |-> ~skip_touch, skip_touch |-> skip_touch]

touch_guard(skip_touch) ==
    IF ~skip_touch THEN [touch |-> TRUE, skip_touch |-> TRUE]
    ELSE [touch |-> FALSE, skip_touch |-> FALSE]

Placeholder(obj) ==
    [obj EXCEPT !.Shape = BoxShape, !.PrimaryCutTool = NullShape,
                !.SecondaryCutTool = NullShape]

Outcome(obj, branch, touch, raised) ==
    [obj |-> obj, branch |-> branch, touch |-> touch, raised |-> raised]

\* _recompute_joint steps 4 to 8: cut tools, visual shape, validation and the
\* touch of the members, for the parameters of step 3.
build_joint(obj, definition, params, primary, secondary, joint_cs, branch) ==
    LET profile == build_secondary_profile(definition, params, primary,
                                           secondary, joint_cs)
        pegs    == build_pegs(definition, params, primary, secondary, joint_cs)
        guard   == touch_guard(obj.skip_touch)
    IN  Outcome([obj EXCEPT
                    !.Parameters = JsonText(to_json(params)),
                    !.PrimaryCutTool = build_primary_tool(
                        definition, params, primary, secondary, joint_cs),
                    !.SecondaryCutTool = profile.shoulder_cut,
                    !.Shape = makeCompound(<<profile.tenon_shape>>,
                                           SelectSeq(pegs, CylinderBuilt)),
                    !.ValidationResults = JsonText(validate(
                        definition, params, primary, secondary, joint_cs)),
                    !.skip_touch = guard.skip_touch],
                branch, guard.touch, FALSE)

\* A step 3 that takes the fresh set when the stored text does not decode.
with_parameters_swallows(obj, definition, primary, secondary, joint_cs, fresh) ==
    IF obj.Parameters.text # "empty" /\ from_json_raises(obj.Parameters)
    THEN build_joint(obj, definition, fresh, primary, secondary, joint_cs,
                     "fresh")
    ELSE build_joint(obj, definition, derive_params(obj.Parameters, fresh),
                     primary, secondary, joint_cs,
                     ParamsBranch(obj.Parameters, fresh))

\* _recompute_joint step 3, for the fresh set of the definition; from_json
\* may raise.
with_parameters(obj, definition, primary, secondary, joint_cs, fresh) ==
    IF obj.Parameters.text # "empty" /\ from_json_raises(obj.Parameters)
    THEN Outcome(obj, "raised", FALSE, TRUE)
    ELSE build_joint(obj, definition, derive_params(obj.Parameters, fresh),
                     primary, secondary, joint_cs,
                     ParamsBranch(obj.Parameters, fresh))

\* A lookup that also drops the stored parameters of an unknown type.
with_definition_resets_parameters(obj, joint_type_id, primary, secondary, joint_cs) ==
    IF get_definition(joint_type_id) = NoDefinition
    THEN Outcome(Placeholder([obj EXCEPT !.JointType = joint_type_id,
                                         !.Parameters = EmptyText]),
                 "unknown_type", FALSE, FALSE)
    ELSE with_parameters([obj EXCEPT !.JointType = joint_type_id],
                         get_definition(joint_type_id), primary, secondary,
                         joint_cs,
                         get_parameters(get_definition(joint_type_id),
                                        primary, secondary))

\* _recompute_joint step 2: the definition looked up by id.
with_definition(obj, joint_type_id, primary, secondary, joint_cs) ==
    IF get_definition(joint_type_id) = NoDefinition
    THEN Outcome(Placeholder([obj EXCEPT !.JointType = joint_type_id]),
                 "unknown_type", FALSE, FALSE)
    ELSE with_parameters([obj EXCEPT !.JointType = joint_type_id],
                         get_definition(joint_type_id), primary, secondary,
                         joint_cs,
                         get_parameters(get_definition(joint_type_id),
                                        primary, secondary))

\* _recompute_joint from the joint coordinate system on.
at_intersection(obj, primary, secondary, joint_cs) ==
    IF ~joint_cs.valid
    THEN Outcome([Placeholder(obj) EXCEPT
                     !.ValidationResults =
                         JsonText(<<[level |-> "error",
                                     code |-> "NO_INTERSECTION"]>>),
                     !.skip_touch = touch_guard(obj.skip_touch).skip_touch],
                 "no_intersection", touch_guard(obj.skip_touch).touch, FALSE)
    ELSE with_definition(
             [obj EXCEPT !.IntersectionPoint = joint_cs.origin,
                         !.IntersectionAngle = joint_cs.angle],
             IF obj.JointType = ""
             THEN DefaultJointType(obj.IntersectionType) ELSE obj.JointType,
             primary, secondary, joint_cs)

\* A step 1 without the tolerance test.
at_closest_approach_ignores_tolerance(obj, primary, secondary, ca) ==
    at_intersection(obj, primary, secondary,
        compute_joint_cs(primary, secondary, Midpoint(ca.pt1, ca.pt2)))

\* _recompute_joint step 1, for the closest approach ca of the two datums.
at_closest_approach(obj, primary, secondary, ca) ==
    IF BeyondTolerance(ca.distSq)
    THEN Outcome([Placeholder(obj) EXCEPT !.ValidationResults =
                     JsonText(<<[level |-> "error",
                                 code |-> "OUT_OF_TOLERANCE"]>>)],
                 "out_of_tolerance", FALSE, FALSE)
    ELSE at_intersection(obj, primary, secondary,
             compute_joint_cs(primary, secondary, Midpoint(ca.pt1, ca.pt2)))

\* TimberJoint._recompute_joint on the joint obj, given the members; raised
\* marks an exception leaving it.
recompute_joint(obj, mem) ==
    IF obj.PrimaryMember = NoMember \/ obj.SecondaryMember = NoMember
    THEN Outcome(Placeholder(obj), "unlinked", FALSE, FALSE)
    ELSE at_closest_approach(obj, mem[obj.PrimaryMember],
             mem[obj.SecondaryMember],
             closest_approach_segments(
                 mem[obj.PrimaryMember].A_StartPoint,
                 mem[obj.PrimaryMember].B_EndPoint,
                 mem[obj.SecondaryMember].A_StartPoint,
                 mem[obj.SecondaryMember].B_EndPoint))

\* The steps of _recompute_joint that call into a joint definition and the
\* geometry kernel after the parameters are stored: the builders of step 4
\* and the validator of step 6.
FaultSteps == {"builder", "validate"}

\* _recompute_joint with an exception raised inside the step named: out is
\* what the pass gives without the fault.  The assignments before the step
\* are made (Parameters before the builders; the cut tools and the Shape too
\* before the validator), the later ones and the touch guard are not.
raise_at(obj, out, step) ==
    IF out.branch \notin {"fresh", "replaced", "refreshed"} THEN out
    ELSE IF step = "builder"
    THEN Outcome([obj EXCEPT !.IntersectionPoint = out.obj.IntersectionPoint,
                             !.IntersectionAngle = out.obj.IntersectionAngle,
                             !.JointType = out.obj.JointType,
                             !.Parameters = out.obj.Parameters],
                 "raised_in_builder", FALSE, TRUE)
    ELSE Outcome([out.obj EXCEPT !.ValidationResults = obj.ValidationResults,
                                 !.skip_touch = obj.skip_touch],
                 "raised_in_validate", FALSE, TRUE)

\* An execute that lets the exception leave.
on_exception_propagates(out) == out

\* The except arm of TimberJoint.execute.
on_exception(out) ==
    IF out.raised THEN [out EXCEPT !.obj = Placeholder(out.obj)] ELSE out

\* TimberJoint.execute
execute(obj, mem) == on_exception(recompute_joint(obj, mem))

\* TimberJoint.execute on a pass in which the step named raises.
execute_faulting(obj, mem, step) ==
    on_exception(raise_at(obj, recompute_joint(obj, mem), step))

\* TimberMember._collect_joint_cuts for the member named m.
collect_joint_cuts(m, jnt) ==
    IF ~jnt.exists THEN <<>>
    ELSE IF jnt.PrimaryMember = m
    THEN IF isNull(jnt.PrimaryCutTool) THEN <<>> ELSE <<jnt.PrimaryCutTool>>
    ELSE IF jnt.SecondaryMember = m
    THEN IF isNull(jnt.SecondaryCutTool) THEN <<>> ELSE <<jnt.SecondaryCutTool>>
    ELSE <<>>

\* TimberMember.execute: the solid of _build_solid with every collected cut
\* subtracted.
TimberMember_execute(m, obj, jnt) ==
    [box   |-> \/ obj.A_StartPoint = obj.B_EndPoint
               \/ obj.Width <= 0 \/ obj.Height <= 0,
     facts |-> Facts(obj),
     cuts  |-> collect_joint_cuts(m, jnt)]

-----------------------------------------------------------------------------
(* The host's recompute of the document, and create_timber_joint.          *)

\* The joint's visual shape before its first recompute.
EmptyShape == [box |-> FALSE, parts |-> <<>>, pegs |-> <<>>]

\* No joint in the document yet.
NoJoint ==
    [exists |-> FALSE, PrimaryMember |-> NoMember, SecondaryMember |-> NoMember,
     IntersectionPoint |-> NoJointCS.origin, IntersectionAngle |-> 0,
     IntersectionType |-> "EndpointToMidpoint", JointType |-> "",
     Parameters |-> EmptyText, ValidationResults |-> EmptyText,
     PrimaryCutTool |-> NullShape, SecondaryCutTool |-> NullShape,
     Shape |-> EmptyShape, skip_touch |-> FALSE, touched |-> FALSE]

\* What the last step did: the operation, whether it ran the joint's execute
\* and on which arm, whether that touched the members, the Parameters the
\* execute started from, the _skip_touch flag it started from, and the
\* members executed.
IdlePass(op) ==
    [op |-> op, ran |-> FALSE, branch |-> "none", touch |-> FALSE,
     before |-> EmptyText, entry_skip |-> FALSE, executed |-> {}]

\* The members named ms, executed.
execute_members(mem, ms, jnt) ==
    [m \in Members |->
        IF m \in ms
        THEN [mem[m] EXCEPT !.Shape = TimberMember_execute(m, mem[m], jnt),
                            !.touched = FALSE]
        ELSE mem[m]]

\* The document after the joint's execute gave out.
after_joint(mem, jnt, out, op, ran) ==
    [member |-> [m \in Members |->
                    IF out.touch /\ m \in {jnt.PrimaryMember, jnt.SecondaryMember}
                    THEN [mem[m] EXCEPT !.touched = TRUE]
                    ELSE mem[m]],
     joint |-> [out.obj EXCEPT !.touched = FALSE],
     lastPass |-> [op |-> op, ran |-> TRUE, branch |-> out.branch,
                   touch |-> out.touch, before |-> jnt.Parameters,
                   entry_skip |-> jnt.skip_touch, executed |-> ran]]

\* The members executed first, then the joint.
recompute_in_order(mem1, jnt, op, ran) ==
    IF jnt.exists /\ (\/ jnt.touched
                      \/ {jnt.PrimaryMember, jnt.SecondaryMember} \cap ran # {})
    THEN after_joint(mem1, jnt, execute(jnt, mem1), op, ran)
    ELSE [member |-> mem1, joint |-> jnt,
          lastPass |-> [IdlePass(op) EXCEPT !.executed = ran]]

\* One doc.recompute(): the touched members execute, then the joint if it is
\* touched or links to a member that executed; an executed object is no
\* longer touched, and a member touched by the joint stays touched.
recompute(mem, jnt, op) ==
    recompute_in_order(
        execute_members(mem, {m \in Members : mem[m].touched}, jnt),
        jnt, op, {m \in Members : mem[m].touched})

\* recompute_in_order and recompute, on a pass in which the step named of the
\* joint's execute raises.
fault_in_order(mem1, jnt, op, ran, step) ==
    IF jnt.exists /\ (\/ jnt.touched
                      \/ {jnt.PrimaryMember, jnt.SecondaryMember} \cap ran # {})
    THEN after_joint(mem1, jnt, execute_faulting(jnt, mem1, step), op, ran)
    ELSE [member |-> mem1, joint |-> jnt,
          lastPass |-> [IdlePass(op) EXCEPT !.executed = ran]]

recompute_faulting(mem, jnt, op, step) ==
    fault_in_order(
        execute_members(mem, {m \in Members : mem[m].touched}, jnt),
        jnt, op, {m \in Members : mem[m].touched}, step)

\* The new joint object of create_timber_joint, before the recomputes.
NewJoint(primary_obj, secondary_obj, intersection_result, joint_type_id) ==
    [NoJoint EXCEPT
        !.exists = TRUE,
        !.PrimaryMember = primary_obj,
        !.SecondaryMember = secondary_obj,
        !.IntersectionPoint = intersection_result.point,
        !.IntersectionType = intersection_result.intersection_type,
        !.JointType = IF joint_type_id # "" THEN joint_type_id
                      ELSE DefaultJointType(
                               intersection_result.intersection_type),
        !.touched = TRUE]

create_timber_joint_one_pass(mem, primary_obj, secondary_obj, intersection_result, joint_type_id) ==
    recompute(mem, NewJoint(primary_obj, secondary_obj, intersection_result,
                            joint_type_id), "create")

\* A second doc.recompute() on the document a first one gave.
recompute_again(done, op) == recompute(done.member, done.joint, op)

create_timber_joint(mem, primary_obj, secondary_obj, intersection_result, joint_type_id) ==
    recompute_again(
        recompute(mem, NewJoint(primary_obj, secondary_obj,
                                intersection_result, joint_type_id), "create"),
        "create")

-----------------------------------------------------------------------------
(* Spec: a document with two members and at most one joint between them,   *)
(* edited through the property editor, the Add Joint command and the joint *)
(* panel, and recomputed by the host.                                      *)

\* External edits per behaviour.
MaxEdits == 3

\* Recompute passes counted since the last external edit.
MaxPasses == 3

\* Cross-sections a member is given, in tenths of a mm.
SectionDims ==
    {[Width |-> 1500, Height |-> 2000], [Width |-> 900, Height |-> 1400],
     [Width |-> 2400, Height |-> 1600]}

\* Datum M1 runs from (0, 0, 0) to (20, 0, 0) cm.  The datums given to M2:
\* butting M1 at its middle, meeting M1's end, 2 cm clear of M1, and along
\* M1 at under 3 degrees.
Layouts ==
    {[A_StartPoint |-> <<10, 0, 0>>, B_EndPoint |-> <<10, 12, 0>>],
     [A_StartPoint |-> <<20, 0, 0>>, B_EndPoint |-> <<20, 12, 0>>],
     [A_StartPoint |-> <<10, 2, 0>>, B_EndPoint |-> <<10, 12, 0>>],
     [A_StartPoint |-> <<0, 0, 0>>, B_EndPoint |-> <<20, 1, 0>>]}

\* The parameters edited in the joint panel, and the values entered.
PanelNames ==
    {"tenon_height", "shoulder_depth", "peg_count", "lap_depth_primary",
     "slot_depth", "channel_mode"}

PanelValues(p) ==
    CASE p.param_type \in {"length", "angle"} -> {PyFloat(700), PyFloat(3000)}
      [] p.param_type = "integer" -> {PyInt(0), PyInt(3)}
      [] p.param_type = "boolean" -> {PyBool(TRUE)}
      [] p.param_type = "enumeration" -> {PyStr("Half")}

\* The joint_type_id argument of create_timber_joint; "" stands for None.
JointTypeArgs == {""} \cup BuiltinIds

\* The document becomes the recomputed document done.
Becomes(done) ==
    /\ member' = done.member
    /\ joint' = done.joint
    /\ lastPass' = done.lastPass

Quiescent == ~joint.touched /\ \A m \in Members : ~member[m].touched

InitialMember(ends) ==
    [Width |-> 1500, Height |-> 2000,
     A_StartPoint |-> ends.A_StartPoint, B_EndPoint |-> ends.B_EndPoint,
     touched |-> FALSE, Shape |-> <<>>]

Init ==
    /\ ps = ParameterSet(<<>>)
    /\ supplied = <<>>
    /\ lastOp = NoOp
    /\ member =
          LET mem == [m \in Members |->
                  IF m = "M1"
                  THEN InitialMember([A_StartPoint |-> <<0, 0, 0>>,
                                      B_EndPoint |-> <<20, 0, 0>>])
                  ELSE InitialMember([A_StartPoint |-> <<10, 0, 0>>,
                                      B_EndPoint |-> <<10, 12, 0>>])]
          IN  [m \in Members |->
                  [mem[m] EXCEPT
                      !.Shape = TimberMember_execute(m, mem[m], NoJoint)]]
    /\ joint = NoJoint
    /\ passes = 0
    /\ edits = 0
    /\ lastPass = IdlePass("init")
    /\ registry = <<>>
    /\ loaded = FALSE
    /\ user_dir = <<>>
    /\ regOp = <<>>
    /\ geoIn = <<>>
    /\ geoOut = <<>>
    /\ defIn = <<>>
    /\ defOut = <<>>
    /\ frame = <<>>
    /\ jointObjs = <<>>
    /\ touching = {}
    /\ changes = 0
    /\ sharedOp = ""
    /\ visited = {}
    /\ bentObjs = <<>>
    /\ memberIDs = <<>>
    /\ bentOp = <<>>

\* Width and Height of a member set in the property editor.
EditSection ==
    /\ edits < MaxEdits
    /\ \E m \in Members, d \in SectionDims :
          /\ <<member[m].Width, member[m].Height>> # <<d.Width, d.Height>>
          /\ member' = [member EXCEPT ![m].Width = d.Width,
                                      ![m].Height = d.Height,
                                      ![m].touched = TRUE]
    /\ edits' = edits + 1
    /\ passes' = 0
    /\ lastPass' = IdlePass("edit_section")
    /\ UNCHANGED <<joint, outsideDoc>>

\* The datum ends of M2 set in the property editor.
MoveMember ==
    /\ edits < MaxEdits
    /\ \E ends \in Layouts :
          /\ member["M2"].A_StartPoint # ends.A_StartPoint
                \/ member["M2"].B_EndPoint # ends.B_EndPoint
          /\ member' = [member EXCEPT
                           !["M2"].A_StartPoint = ends.A_StartPoint,
                           !["M2"].B_EndPoint = ends.B_EndPoint,
                           !["M2"].touched = TRUE]
    /\ edits' = edits + 1
    /\ passes' = 0
    /\ lastPass' = IdlePass("move_member")
    /\ UNCHANGED <<joint, outsideDoc>>

\* The Parameters string replaced in the property editor by text that is
\* not JSON.
EditParametersText ==
    /\ edits < MaxEdits
    /\ joint.exists
    /\ joint.Parameters # GarbageText
    /\ joint' = [joint EXCEPT !.Parameters = GarbageText, !.touched = TRUE]
    /\ edits' = edits + 1
    /\ passes' = 0
    /\ lastPass' = IdlePass("edit_text")
    /\ UNCHANGED <<member, outsideDoc>>

\* Ids a joint can name that the registry does not hold: the default of
\* DEFAULT_JOINT_TYPES for EndpointToEndpoint, which no definition declares,
\* and the id of a user definition that is no longer loaded.
UnregisteredIds == {"scarf_bladed", "user_joint"}

\* The JointType of the joint set to an id the registry does not hold, as in
\* a document restored without the user definition it was saved with.
EditJointType ==
    /\ edits < MaxEdits
    /\ joint.exists
    /\ \E id \in UnregisteredIds \ {joint.JointType} :
          joint' = [joint EXCEPT !.JointType = id, !.touched = TRUE]
    /\ edits' = edits + 1
    /\ passes' = 0
    /\ lastPass' = IdlePass("edit_type")
    /\ UNCHANGED <<member, outsideDoc>>

\* create_timber_joint on the result of _test_pair.
CreateFrom(result, id) ==
    /\ result.found
    /\ Becomes(create_timber_joint(member, result.primary_obj,
                                   result.secondary_obj, result, id))

\* AddJointCommand.Activated on a selection of the two members, and
\* create_timber_joint called with a joint type.
CreateJoint ==
    /\ edits < MaxEdits
    /\ ~joint.exists
    /\ \E obj_a \in Members :
          \E obj_b \in Members \ {obj_a}, id \in JointTypeArgs :
              CreateFrom(test_pair(member, obj_a, obj_b), id)
    /\ edits' = edits + 1
    /\ passes' = 2
    /\ UNCHANGED outsideDoc

\* JointPanel._on_type_changed
ChangeType ==
    /\ edits < MaxEdits
    /\ joint.exists
    /\ \E new_id \in BuiltinIds \ {joint.JointType} :
          Becomes(recompute(member, [joint EXCEPT !.JointType = new_id,
                                                  !.touched = TRUE],
                            "type_changed"))
    /\ edits' = edits + 1
    /\ passes' = 1
    /\ UNCHANGED outsideDoc

\* The panel handlers store the edited set, touch the joint and recompute.
StoreAndRecompute(params, op) ==
    Becomes(recompute(member,
                      [joint EXCEPT !.Parameters = JsonText(to_json(params)),
                                    !.touched = TRUE], op))

\* The rows of the panel: the stored parameters.
PanelRows == from_json(joint.Parameters.doc)

\* JointPanel._on_param_value_changed
EditParameter ==
    /\ edits < MaxEdits
    /\ joint.exists
    /\ joint.Parameters.text # "empty"
    /\ ~from_json_raises(joint.Parameters)
    /\ \E name \in Names(PanelRows) \cap PanelNames :
          \E value \in PanelValues(PanelRows.params[name]) :
              StoreAndRecompute(set_override(PanelRows, name, value),
                                "param_changed")
    /\ edits' = edits + 1
    /\ passes' = 1
    /\ UNCHANGED outsideDoc

\* JointPanel._on_param_revert; the revert button shows on overridden rows.
RevertParameter ==
    /\ edits < MaxEdits
    /\ joint.exists
    /\ joint.Parameters.text # "empty"
    /\ ~from_json_raises(joint.Parameters)
    /\ \E name \in {nm \in Names(PanelRows) : PanelRows.params[nm].is_overridden} :
          StoreAndRecompute(clear_override(PanelRows, name), "param_revert")
    /\ edits' = edits + 1
    /\ passes' = 1
    /\ UNCHANGED outsideDoc

\* The host recomputes the document while an object is touched.
RecomputePass ==
    /\ ~Quiescent
    /\ passes < MaxPasses
    /\ Becomes(recompute(member, joint, "recompute"))
    /\ passes' = passes + 1
    /\ UNCHANGED <<edits, outsideDoc>>

\* A recompute pass in which a builder or the validator raises.
RecomputeFault ==
    /\ ~Quiescent
    /\ passes < MaxPasses
    /\ \E step \in FaultSteps :
          Becomes(recompute_faulting(member, joint, "recompute", step))
    /\ passes' = passes + 1
    /\ UNCHANGED <<edits, outsideDoc>>

Next ==
    \/ EditSection
    \/ MoveMember
    \/ EditParametersText
    \/ CreateJoint
    \/ ChangeType
    \/ EditParameter
    \/ RevertParameter
    \/ RecomputePass
    \/ RecomputeFault
    \/ EditJointType

Spec == Init /\ [][Next]_vars

\* A step of RecomputePass, told by what it leaves in the history.
RecomputeStep == lastPass'.op = "recompute" /\ passes' = passes + 1

\* The host keeps recomputing while an object is touched: weak fairness of
\* RecomputePass, WF_vars(RecomputePass), with ENABLED written out as the
\* guard of the action.
FairSpec ==
    /\ Spec
    /\ \/ []<>(Quiescent \/ passes >= MaxPasses)
       \/ []<><<RecomputeStep>>_vars

-----------------------------------------------------------------------------
(* Properties of the document model, checked under Spec and FairSpec.      *)

\* The set the joint's last execute started from, the set it persisted, and
\* the set its definition derives from the members as they are.
StoredBefore == from_json(lastPass.before.doc)

StoredNow == from_json(joint.Parameters.doc)

FreshNow ==
    get_parameters(joint.JointType, member[joint.PrimaryMember],
                   member[joint.SecondaryMember])

\* C4: a TimberJoint recompute that finds the stored parameter names equal
\* to the freshly derived names keeps the value and the is_overridden flag
\* of every overridden parameter as they were before the recompute, and
\* persists for every parameter the default freshly derived from the current
\* member geometry.
C4_RecomputeKeepsOverrides ==
    (lastPass.ran /\ lastPass.branch = "refreshed") =>
        /\ Names(StoredNow) = Names(StoredBefore)
        /\ \A nm \in Names(StoredBefore) :
              StoredBefore.params[nm].is_overridden =>
                  /\ StoredNow.params[nm].is_overridden
                  /\ StoredNow.params[nm].value = StoredBefore.params[nm].value
        /\ \A nm \in Names(StoredNow) :
              StoredNow.params[nm].default_value
                  = FreshNow.params[nm].default_value

C4_Witness ==
    /\ lastPass.op = "recompute"
    /\ lastPass.ran
    /\ lastPass.branch = "refreshed"
    /\ \E nm \in Names(StoredBefore) :
          /\ StoredBefore.params[nm].is_overridden
          /\ StoredNow.params[nm].default_value
                # StoredBefore.params[nm].default_value
          /\ StoredNow.params[nm].value # StoredNow.params[nm].default_value
    /\ \E nm \in Names(StoredBefore) : ~StoredBefore.params[nm].is_overridden

C6_RecomputeTerminates ==
    /\ (~Quiescent) ~> Quiescent
    /\ [](passes >= 2 => Quiescent)
    /\ [][(lastPass.touch /\ lastPass'.ran) => ~lastPass'.touch]_vars

C6_Witness ==
    /\ passes = 2
    /\ Quiescent
    /\ lastPass.op = "recompute"
    /\ lastPass.ran
    /\ ~lastPass.touch
    /\ lastPass.executed = Members
    /\ ~joint.skip_touch
    /\ ~isNull(joint.PrimaryCutTool)

\* The cuts a member's shape has when tool is the joint's cut tool for it.
Subtracted(tool) == IF isNull(tool) THEN <<>> ELSE <<tool>>

-----------------------------------------------------------------------------
\* The arms of a pass on which an exception left _recompute_joint.
RaisedBranches == {"raised", "raised_in_builder", "raised_in_validate"}

\* C11: when a step of the joint's recompute raises (parameter decoding, a
\* builder, the validator), execute still returns: the pass completes with
\* the joint executed, its Shape the placeholder box and both PrimaryCutTool
\* and SecondaryCutTool empty.
C11_ExecuteNeverRaises ==
    (lastPass.ran /\ lastPass.branch \in RaisedBranches) =>
        /\ ~joint.touched
        /\ joint.Shape = BoxShape
        /\ isNull(joint.PrimaryCutTool)
        /\ isNull(joint.SecondaryCutTool)

\* The validator raised on a pass that had already stored the parameters,
\* the cut tools and the compound shape.
C11_Witness ==
    /\ lastPass.ran
    /\ lastPass.branch = "raised_in_validate"
    /\ joint.Parameters.text = "json"
    /\ joint.Shape = BoxShape
    /\ isNull(joint.PrimaryCutTool)

-----------------------------------------------------------------------------
\* The pass got as far as the lookup of the joint definition.
ReachedLookup ==
    /\ lastPass.ran
    /\ lastPass.branch \notin {"unlinked", "out_of_tolerance", "no_intersection"}

-----------------------------------------------------------------------------
\* The closest approach of the datums of the joint's two members, and the
\* joint coordinate system at its midpoint, as a pass computes them.
JointApproach ==
    closest_approach_segments(
        member[joint.PrimaryMember].A_StartPoint,
        member[joint.PrimaryMember].B_EndPoint,
        member[joint.SecondaryMember].A_StartPoint,
        member[joint.SecondaryMember].B_EndPoint)

JointCSAt(ca) ==
    compute_joint_cs(member[joint.PrimaryMember],
                     member[joint.SecondaryMember], Midpoint(ca.pt1, ca.pt2))

\* The one validation record of level error with the code given.
OneError(code) == JsonText(<<[level |-> "error", code |-> code]>>)

\* No definition was asked for parameters or shapes: the pass ended on the
\* arm named, the Parameters are untouched, the cut tools are empty and the
\* Shape is the placeholder.
EndedBeforeBuilders(arm) ==
    /\ lastPass.branch = arm
    /\ joint.Parameters = lastPass.before
    /\ isNull(joint.PrimaryCutTool)
    /\ isNull(joint.SecondaryCutTool)
    /\ joint.Shape = BoxShape

C13_WitnessApart ==
    /\ lastPass.ran
    /\ lastPass.branch = "out_of_tolerance"
    /\ lastPass.before.text = "json"
    /\ BeyondTolerance(JointApproach.distSq)
    /\ joint.ValidationResults = OneError("OUT_OF_TOLERANCE")

-----------------------------------------------------------------------------
(* SpecReg: the joint definition registry of joints/loader.py.  A          *)
(* definition is a record of the class attributes the loader reads, tagged *)
(* with the directory it came from; angles are in whole degrees.           *)

Definition(ID, origin, MIN, MAX, PRIMARY_ROLES, SECONDARY_ROLES) ==
    [ID |-> ID, origin |-> origin, MIN_ANGLE |-> MIN, MAX_ANGLE |-> MAX,
     PRIMARY_ROLES |-> PRIMARY_ROLES, SECONDARY_ROLES |-> SECONDARY_ROLES]

\* The definitions of joints/builtin/, in the order of the sorted file names
\* half_lap.py, housed_dovetail.py, through_mortise_tenon.py.
BuiltinDefinitions ==
    <<Definition("half_lap", "builtin", 60, 120,
          {"Beam", "Girt", "Plate", "Sill", "Purlin", "TieBeam"},
          {"Beam", "Girt", "Plate", "Sill", "Purlin", "TieBeam"}),
      Definition("dovetail", "builtin", 75, 105,
          {"Beam", "Girt", "SummerBeam", "Plate", "Post"},
          {"FloorJoist", "Rafter", "Purlin", "Girt"}),
      Definition("through_mortise_tenon", "builtin", 45, 135,
          {"Post", "Beam", "Girt", "TieBeam", "Plate", "Sill", "SummerBeam"},
          {"Beam", "Girt", "TieBeam", "Rafter", "Brace", "FloorJoist"})>>

\* A file of the user joints directory: the definition class it holds and
\* whether the import and the instantiation succeed.
UserFile(defn, loads) == [defn |-> defn, loads |-> loads]

\* The files a user directory is made of, in file name order: an override of
\* half_lap with the base class's angles and roles, a scarf_bladed for posts,
\* a definition that fails to instantiate, and a class with the empty ID.
UserFiles ==
    <<UserFile(Definition("half_lap", "user", 45, 135, {}, {}), TRUE),
      UserFile(Definition("scarf_bladed", "user", 45, 135, {"Post"}, {}), TRUE),
      UserFile(Definition("user_joint", "user", 45, 135, {}, {}), FALSE),
      UserFile(Definition("", "user", 45, 135, {}, {}), TRUE)>>

\* The user directories considered: every choice of files, in name order.
RECURSIVE SubSeqs(_)
SubSeqs(files) ==
    IF files = <<>> THEN {<<>>}
    ELSE LET rest == SubSeqs(Tail(files))
         IN  rest \cup {<<Head(files)>> \o r : r \in rest}

UserDirs == SubSeqs(UserFiles)

\* _discover_in_directory: the instances of the classes that import,
\* instantiate and have a non-empty ID.
discover_in_directory(files) ==
    LET good(f) == f.loads /\ f.defn.ID # ""
        kept == SelectSeq(files, good)
    IN  [i \in DOMAIN kept |-> kept[i].defn]

\* _registry[defn.ID] = defn on an insertion-ordered dict: an existing key
\* keeps its place and takes the new value, a new key goes last.
dict_set(reg, defn) ==
    IF \E i \in DOMAIN reg : reg[i].ID = defn.ID
    THEN [i \in DOMAIN reg |-> IF reg[i].ID = defn.ID THEN defn ELSE reg[i]]
    ELSE Append(reg, defn)

RECURSIVE register_all(_, _)
register_all(reg, defs) ==
    IF defs = <<>> THEN reg
    ELSE register_all(dict_set(reg, Head(defs)), Tail(defs))

\* A load_all without the _registry.clear().
load_all_keeps_entries(reg, files) ==
    register_all(register_all(reg, BuiltinDefinitions),
                 discover_in_directory(files))

\* load_all: the registry cleared, the built-ins registered, then the user
\* definitions.
load_all(reg, files) ==
    register_all(register_all(<<>>, BuiltinDefinitions),
                 discover_in_directory(files))

\* The registry a public function works on: loaded on first use.
ensure_loaded(reg, is_loaded, files) ==
    IF ~is_loaded THEN load_all(reg, files) ELSE reg

\* _registry.get(joint_type_id), as the origin of the instance found.
registry_get(reg, joint_type_id) ==
    IF \E i \in DOMAIN reg : reg[i].ID = joint_type_id
    THEN (CHOOSE d \in {reg[i] : i \in DOMAIN reg} : d.ID = joint_type_id).origin
    ELSE "None"

\* list.remove(x) then list.insert(0, x)
MoveToFront(list, x) ==
    LET i == CHOOSE k \in DOMAIN list :
                 list[k] = x /\ \A j \in 1..(k - 1) : list[j] # x
    IN  <<x>> \o SubSeq(list, 1, i - 1) \o SubSeq(list, i + 1, Len(list))

\* A get_suggested_types that leaves the candidates in registry order.
get_suggested_types_unordered(reg, intersection_type, primary_role, secondary_role, angle) ==
    LET ok(defn) ==
            /\ ~(angle < defn.MIN_ANGLE \/ angle > defn.MAX_ANGLE)
            /\ ~(defn.PRIMARY_ROLES # {} /\ primary_role \notin defn.PRIMARY_ROLES)
            /\ ~(defn.SECONDARY_ROLES # {}
                    /\ secondary_role \notin defn.SECONDARY_ROLES)
        kept == SelectSeq(reg, ok)
    IN  [i \in DOMAIN kept |-> kept[i].ID]

\* get_suggested_types on the loaded registry reg.
get_suggested_types(reg, intersection_type, primary_role, secondary_role, angle) ==
    LET ok(defn) ==
            /\ ~(angle < defn.MIN_ANGLE \/ angle > defn.MAX_ANGLE)
            /\ ~(defn.PRIMARY_ROLES # {} /\ primary_role \notin defn.PRIMARY_ROLES)
            /\ ~(defn.SECONDARY_ROLES # {}
                    /\ secondary_role \notin defn.SECONDARY_ROLES)
        kept == SelectSeq(reg, ok)
        candidates == [i \in DOMAIN kept |-> kept[i].ID]
        has_default == intersection_type \in DOMAIN DEFAULT_JOINT_TYPES
        default_id == IF has_default THEN DEFAULT_JOINT_TYPES[intersection_type]
                      ELSE ""
    IN  IF has_default /\ \E i \in DOMAIN candidates : candidates[i] = default_id
        THEN MoveToFront(candidates, default_id)
        ELSE candidates

\* The ids asked of get_definition.
LookupIds ==
    {"half_lap", "dovetail", "through_mortise_tenon", "scarf_bladed",
     "user_joint", ""}

\* The arguments given to get_suggested_types.
SuggestTypes ==
    {"EndpointToMidpoint", "MidpointToMidpoint", "EndpointToEndpoint", "Other"}

PrimaryRoles == {"Post", "Beam"}

SecondaryRoles == {"Beam", "Rafter"}

SuggestAngles == {44, 45, 75, 105, 106, 136}

IdleReg ==
    [op |-> "init", fresh |-> FALSE, before |-> {}, id |-> "", result |-> "",
     intersection_type |-> "", primary_role |-> "", secondary_role |-> "",
     angle |-> 0, suggested |-> <<>>]

Ids(reg) == {reg[i].ID : i \in DOMAIN reg}

InitReg ==
    /\ registry = <<>>
    /\ loaded = FALSE
    /\ user_dir \in UserDirs
    /\ regOp = IdleReg
    /\ ps = ParameterSet(<<>>)
    /\ supplied = <<>>
    /\ lastOp = NoOp
    /\ member = <<>>
    /\ joint = <<>>
    /\ passes = 0
    /\ edits = 0
    /\ lastPass = <<>>
    /\ geoIn = <<>>
    /\ geoOut = <<>>
    /\ defIn = <<>>
    /\ defOut = <<>>
    /\ frame = <<>>
    /\ jointObjs = <<>>
    /\ touching = {}
    /\ changes = 0
    /\ sharedOp = ""
    /\ visited = {}
    /\ bentObjs = <<>>
    /\ memberIDs = <<>>
    /\ bentOp = <<>>

\* The user adds or removes definition files.
EditUserDir ==
    /\ \E files \in UserDirs \ {user_dir} : user_dir' = files
    /\ regOp' = [IdleReg EXCEPT !.op = "edit_user_dir", !.before = Ids(registry)]
    /\ UNCHANGED <<registry, loaded, outsideReg>>

\* load_all()
LoadAll ==
    /\ registry' = load_all(registry, user_dir)
    /\ loaded' = TRUE
    /\ regOp' = [IdleReg EXCEPT !.op = "load_all", !.fresh = TRUE,
                                !.before = Ids(registry)]
    /\ UNCHANGED <<user_dir, outsideReg>>

\* get_definition(joint_type_id)
GetDefinition ==
    /\ \E joint_type_id \in LookupIds :
          /\ registry' = ensure_loaded(registry, loaded, user_dir)
          /\ regOp' = [IdleReg EXCEPT
                          !.op = "get_definition",
                          !.fresh = (~loaded \/ regOp.fresh),
                          !.before = Ids(registry),
                          !.id = joint_type_id,
                          !.result = registry_get(registry', joint_type_id)]
    /\ loaded' = TRUE
    /\ UNCHANGED <<user_dir, outsideReg>>

\* get_suggested_types(intersection_type, primary_role, secondary_role, angle)
GetSuggestedTypes ==
    /\ \E intersection_type \in SuggestTypes, primary_role \in PrimaryRoles,
          secondary_role \in SecondaryRoles, angle \in SuggestAngles :
          /\ registry' = ensure_loaded(registry, loaded, user_dir)
          /\ regOp' = [IdleReg EXCEPT
                          !.op = "get_suggested_types",
                          !.fresh = (~loaded \/ regOp.fresh),
                          !.before = Ids(registry),
                          !.intersection_type = intersection_type,
                          !.primary_role = primary_role,
                          !.secondary_role = secondary_role,
                          !.angle = angle,
                          !.suggested = get_suggested_types(
                              registry', intersection_type, primary_role,
                              secondary_role, angle)]
    /\ loaded' = TRUE
    /\ UNCHANGED <<user_dir, outsideReg>>

NextReg == EditUserDir \/ LoadAll \/ GetDefinition \/ GetSuggestedTypes

SpecReg == InitReg /\ [][NextReg]_vars

-----------------------------------------------------------------------------
(* Properties of the registry, checked under SpecReg.                      *)

\* The ids a directory declares: those of the definitions that load.
DeclaredBy(defs) == {defs[i].ID : i \in DOMAIN defs}

\* Where the instance of an id comes from, by the claim.
ExpectedOrigin(id) ==
    IF id \in DeclaredBy(discover_in_directory(user_dir)) THEN "user"
    ELSE IF id \in DeclaredBy(BuiltinDefinitions) THEN "builtin"
    ELSE "None"

\* C14: after load_all, get_definition returns the user-supplied instance
\* for an id declared by a built-in and by a user definition, the built-in
\* for an id only a built-in declares, and None for an id neither declares;
\* a second load_all gives the same id-to-origin mapping, and no entry of an
\* earlier load survives.
C14_RegistryMerge ==
    /\ [](regOp.op = "load_all" =>
            \A id \in LookupIds : registry_get(registry, id) = ExpectedOrigin(id))
    /\ []((regOp.op = "get_definition" /\ regOp.fresh) =>
            regOp.result = ExpectedOrigin(regOp.id))
    /\ [][(regOp.op = "load_all" /\ regOp'.op = "load_all") =>
            \A id \in LookupIds :
                registry_get(registry', id) = registry_get(registry, id)]_vars

\* A reload after the user directory lost scarf_bladed and gained an
\* override of half_lap.
C14_Witness ==
    /\ regOp.op = "load_all"
    /\ "scarf_bladed" \in regOp.before
    /\ registry_get(registry, "scarf_bladed") = "None"
    /\ registry_get(registry, "half_lap") = "user"
    /\ registry_get(registry, "dovetail") = "builtin"

\* The place of an id in the registry.
RegistryIndex(id) == CHOOSE i \in DOMAIN registry : registry[i].ID = id

\* The registered ids the claim lets through for the arguments of the call.
Compatible ==
    {d.ID : d \in
        {e \in {registry[i] : i \in DOMAIN registry} :
            /\ e.MIN_ANGLE <= regOp.angle /\ regOp.angle <= e.MAX_ANGLE
            /\ e.PRIMARY_ROLES = {} \/ regOp.primary_role \in e.PRIMARY_ROLES
            /\ e.SECONDARY_ROLES = {}
                  \/ regOp.secondary_role \in e.SECONDARY_ROLES}}

\* The default id of the call's intersection type is among the ids given.
DefaultAmong(ids) ==
    /\ regOp.intersection_type \in DOMAIN DEFAULT_JOINT_TYPES
    /\ DEFAULT_JOINT_TYPES[regOp.intersection_type] \in ids

-----------------------------------------------------------------------------
(* SpecGeo: the functions of joints/intersection.py applied to arguments   *)
(* drawn from bounded sets.                                                *)

\* The end points of the segments given to closest_approach_segments: a
\* grid that yields zero-length, collinear, parallel, crossing and skew
\* pairs.
GridPoints == {<<x, y, z>> : x \in {0, 1, 2}, y \in {0, 1}, z \in {0, 1}}

Segments(p1, d1, p2, d2) ==
    [kind |-> "segments", p1 |-> p1, d1 |-> d1, p2 |-> p2, d2 |-> d2]

\* A = (0,0,0)-(1000,0,0) and B = (500,-300,0)-(500,300,0) mm, in cm.
CrossingExample ==
    Segments(<<0, 0, 0>>, <<100, 0, 0>>, <<50, -30, 0>>, <<50, 30, 0>>)

SegmentInputs ==
    {Segments(p1, d1, p2, d2) :
        p1 \in GridPoints, d1 \in GridPoints, p2 \in GridPoints,
        d2 \in GridPoints} \cup {CrossingExample}

\* The segment parameters and thresholds given to classify_intersection:
\* values at, just inside and just outside each threshold.
UnitFractions ==
    {Rat(n, 100) : n \in {0, 1, 2, 3, 10, 11, 50, 89, 90, 97, 98, 99, 100}}

ENDPOINT_THRESHOLD == Rat(2, 100)

Thresholds == {Zero, ENDPOINT_THRESHOLD, Rat(10, 100)}

ParamInputs ==
    {[kind |-> "params", t1 |-> t1, t2 |-> t2, threshold |-> th] :
        t1 \in UnitFractions, t2 \in UnitFractions, th \in Thresholds}

\* The cross-sections of the two members given to assign_primary_secondary;
\* 3000 x 900 is wider than 1500 x 2000 and smaller in area.
PairSections == SectionDims \cup {[Width |-> 3000, Height |-> 900]}

IntersectionTypes ==
    {"EndpointToMidpoint", "MidpointToMidpoint", "EndpointToEndpoint"}

PairInputs ==
    {[kind |-> "pair", mem |-> [m \in {"A", "B"} |-> IF m = "A" THEN a ELSE b],
      intersection_type |-> ty, t_a |-> t_a, t_b |-> t_b] :
        a \in PairSections, b \in PairSections, ty \in IntersectionTypes,
        t_a \in UnitFractions, t_b \in UnitFractions}

\* The datum directions given to compute_joint_cs: the axes, diagonals, the
\* zero vector, and directions 4.76 and 5.19 degrees off the x axis, each
\* way round.
DatumDirections ==
    {<<1, 0, 0>>, <<-1, 0, 0>>, <<0, 1, 0>>, <<0, 0, 1>>, <<1, 1, 0>>,
     <<1, 1, 1>>, <<12, 1, 0>>, <<-12, 1, 0>>, <<11, 1, 0>>, <<-11, 1, 0>>,
     <<0, 0, 0>>}

Datum(start, dir) ==
    [A_StartPoint |-> start,
     B_EndPoint |-> <<start[1] + dir[1], start[2] + dir[2], start[3] + dir[3]>>]

DatumInputs ==
    {[kind |-> "datums", primary |-> Datum(<<0, 0, 0>>, p_dir),
      secondary |-> Datum(s_start, s_dir),
      point |-> [n |-> <<0, 0, 0>>, d |-> 1]] :
        p_dir \in DatumDirections, s_dir \in DatumDirections,
        s_start \in {<<0, 0, 0>>, <<3, -2, 1>>}}

\* The datums of the members of a scanned document, in cm: a beam, a post
\* butting its middle, the post 1 cm and 2 cm short of it, a member crossing
\* its quarter point, one along it at under 3 degrees, and a zero-length
\* one on it.
ScanDatums ==
    {[A_StartPoint |-> <<0, 0, 0>>, B_EndPoint |-> <<20, 0, 0>>],
     [A_StartPoint |-> <<10, 0, 0>>, B_EndPoint |-> <<10, 12, 0>>],
     [A_StartPoint |-> <<10, 1, 0>>, B_EndPoint |-> <<10, 12, 0>>],
     [A_StartPoint |-> <<10, 2, 0>>, B_EndPoint |-> <<10, 12, 0>>],
     [A_StartPoint |-> <<5, -5, 0>>, B_EndPoint |-> <<5, 5, 0>>],
     [A_StartPoint |-> <<0, 0, 0>>, B_EndPoint |-> <<20, 1, 0>>],
     [A_StartPoint |-> <<10, 0, 0>>, B_EndPoint |-> <<10, 0, 0>>]}

ScanMembers == <<"A", "B", "C">>

ScanMember(datum, section) ==
    [A_StartPoint |-> datum.A_StartPoint, B_EndPoint |-> datum.B_EndPoint,
     Width |-> section.Width, Height |-> section.Height]

Link(pm, sm) == [PrimaryMember |-> pm, SecondaryMember |-> sm]

\* The TimberJoint objects already in the document.
ScanJoints ==
    {{}, {Link("A", "B")}, {Link("B", "A")}, {Link("C", "B"), Link("A", "C")},
     {Link("A", NoMember)}}

DocumentInputs ==
    {[kind |-> "document",
      mem |-> [m \in {"A", "B", "C"} |->
                  CASE m = "A" -> ScanMember(da, [Width |-> 1500, Height |-> 2000])
                    [] m = "B" -> ScanMember(db, [Width |-> 900, Height |-> 1400])
                    [] m = "C" -> ScanMember(dc, [Width |-> 2400, Height |-> 1600])],
      joints |-> js] :
        da \in ScanDatums, db \in ScanDatums, dc \in ScanDatums,
        js \in ScanJoints}

GeoInputs ==
    SegmentInputs \cup ParamInputs \cup PairInputs \cup DatumInputs
        \cup DocumentInputs

NoCall == [fn |-> "none"]

InitGeo ==
    /\ geoIn \in GeoInputs
    /\ geoOut = NoCall
    /\ ps = ParameterSet(<<>>)
    /\ supplied = <<>>
    /\ lastOp = NoOp
    /\ member = <<>>
    /\ joint = <<>>
    /\ passes = 0
    /\ edits = 0
    /\ lastPass = <<>>
    /\ registry = <<>>
    /\ loaded = FALSE
    /\ user_dir = <<>>
    /\ regOp = <<>>
    /\ defIn = <<>>
    /\ defOut = <<>>
    /\ frame = <<>>
    /\ jointObjs = <<>>
    /\ touching = {}
    /\ changes = 0
    /\ sharedOp = ""
    /\ visited = {}
    /\ bentObjs = <<>>
    /\ memberIDs = <<>>
    /\ bentOp = <<>>

\* closest_approach_segments(p1, d1, p2, d2)
ClosestApproach ==
    /\ geoIn.kind = "segments"
    /\ geoOut = NoCall
    /\ geoOut' = [fn |-> "closest_approach_segments",
                  result |-> closest_approach_segments(
                                 geoIn.p1, geoIn.d1, geoIn.p2, geoIn.d2)]
    /\ UNCHANGED <<geoIn, outsideGeo>>

\* classify_intersection(t1, t2, threshold), on the arguments as drawn and
\* swapped; with the default threshold, also without the third argument.
Classify ==
    /\ geoIn.kind = "params"
    /\ geoOut = NoCall
    /\ geoOut' = [fn |-> "classify_intersection",
                  result |-> classify_with_threshold(
                                 geoIn.t1, geoIn.t2, geoIn.threshold),
                  swapped |-> classify_with_threshold(
                                  geoIn.t2, geoIn.t1, geoIn.threshold),
                  by_default |-> classify_intersection(geoIn.t1, geoIn.t2)]
    /\ UNCHANGED <<geoIn, outsideGeo>>

\* assign_primary_secondary(obj_a, obj_b, intersection_type, t_a, t_b)
AssignPrimarySecondary ==
    /\ geoIn.kind = "pair"
    /\ geoOut = NoCall
    /\ geoOut' = [fn |-> "assign_primary_secondary",
                  result |-> assign_primary_secondary(
                                 geoIn.mem, "A", "B", geoIn.intersection_type,
                                 geoIn.t_a, geoIn.t_b)]
    /\ UNCHANGED <<geoIn, outsideGeo>>

\* compute_joint_cs(primary_obj, secondary_obj, intersection_point), and
\* the same with the secondary datum turned end for end.
ComputeJointCS ==
    /\ geoIn.kind = "datums"
    /\ geoOut = NoCall
    /\ geoOut' = [fn |-> "compute_joint_cs",
                  result |-> compute_joint_cs(geoIn.primary, geoIn.secondary,
                                              geoIn.point),
                  reversed |-> compute_joint_cs(
                      geoIn.primary,
                      [A_StartPoint |-> geoIn.secondary.B_EndPoint,
                       B_EndPoint |-> geoIn.secondary.A_StartPoint],
                      geoIn.point)]
    /\ UNCHANGED <<geoIn, outsideGeo>>

\* detect_intersections(doc)
DetectIntersections ==
    /\ geoIn.kind = "document"
    /\ geoOut = NoCall
    /\ geoOut' = [fn |-> "detect_intersections",
                  result |-> detect_intersections(geoIn.mem, ScanMembers,
                                                  geoIn.joints)]
    /\ UNCHANGED <<geoIn, outsideGeo>>

NextGeo ==
    \/ ClosestApproach
    \/ Classify
    \/ AssignPrimarySecondary
    \/ ComputeJointCS
    \/ DetectIntersections

SpecGeo == InitGeo /\ [][NextGeo]_vars

-----------------------------------------------------------------------------
(* Properties of the intersection functions, checked under SpecGeo.        *)

\* 0 <= t <= 1 for the fraction t.
InUnit(t) == t.d > 0 /\ 0 <= t.n /\ t.n <= t.d

\* The point pt, a numerator triple over a denominator, is p + t * (d - p).
PointAt(pt, p, d, t) ==
    \A i \in 1..3 : pt.n[i] * t.d = (p[i] * t.d + (d[i] - p[i]) * t.n) * pt.d

\* The squared distance between pt1 and pt2, which share a denominator.
SeparationSq(pt1, pt2) ==
    Rat(Dot(Sub(pt1.n, pt2.n), Sub(pt1.n, pt2.n)), pt1.d * pt2.d)

\* C16: for every segment pair, zero-length and parallel ones included,
\* closest_approach_segments returns t1 and t2 in [0, 1], a distance >= 0
\* and the points pt1 = p1 + t1 * (d1 - p1), pt2 = p2 + t2 * (d2 - p2), whose
\* separation is the distance returned; for the crossing example both points
\* are (500, 0, 0) mm, the distance is 0 and t1 = t2 = 0.5.
C16_ClosestApproach ==
    geoOut.fn = "closest_approach_segments" =>
        LET r == geoOut.result
        IN  /\ InUnit(r.t1)
            /\ InUnit(r.t2)
            /\ r.distSq.n >= 0 /\ r.distSq.d > 0
            /\ PointAt(r.pt1, geoIn.p1, geoIn.d1, r.t1)
            /\ PointAt(r.pt2, geoIn.p2, geoIn.d2, r.t2)
            /\ r.distSq = SeparationSq(r.pt1, r.pt2)
            /\ geoIn = CrossingExample =>
                  /\ r.t1 = Rat(1, 2) /\ r.t2 = Rat(1, 2)
                  /\ r.distSq = Zero
                  /\ PointAt(r.pt1, <<50, 0, 0>>, <<50, 0, 0>>, Zero)
                  /\ PointAt(r.pt2, <<50, 0, 0>>, <<50, 0, 0>>, Zero)

\* The crossing example, evaluated.
C16_Witness ==
    /\ geoOut.fn = "closest_approach_segments"
    /\ geoIn = CrossingExample
    /\ geoOut.result.t1 = Rat(1, 2)
    /\ geoOut.result.distSq = Zero

\* A zero-length first segment away from a second segment of positive
\* length, and two parallel segments of positive length on distinct lines.
C16_WitnessDegenerate ==
    /\ geoOut.fn = "closest_approach_segments"
    /\ geoIn.p1 = geoIn.d1
    /\ geoIn.p2 # geoIn.d2
    /\ geoOut.result.distSq.n > 0

C16_WitnessParallel ==
    /\ geoOut.fn = "closest_approach_segments"
    /\ geoIn.p1 # geoIn.d1 /\ geoIn.p2 # geoIn.d2
    /\ Cross(Sub(geoIn.d1, geoIn.p1), Sub(geoIn.d2, geoIn.p2)) = <<0, 0, 0>>
    /\ geoOut.result.distSq.n > 0

\* t is within the threshold of 0 or of 1.
NearEnd(t, threshold) ==
    \/ t.n * threshold.d <= threshold.n * t.d
    \/ (t.d - t.n) * threshold.d <= threshold.n * t.d

\* C17: for t1, t2 in [0, 1] classify_intersection returns one of three
\* tags: EndpointToEndpoint iff both parameters are within the threshold of
\* 0 or 1, EndpointToMidpoint iff exactly one is, MidpointToMidpoint iff
\* neither is; swapping t1 and t2 does not change the result.
C17_Classification ==
    geoOut.fn = "classify_intersection" =>
        LET n1 == NearEnd(geoIn.t1, geoIn.threshold)
            n2 == NearEnd(geoIn.t2, geoIn.threshold)
        IN  /\ geoOut.result \in {"EndpointToEndpoint", "EndpointToMidpoint",
                                  "MidpointToMidpoint"}
            /\ geoOut.result = "EndpointToEndpoint" <=> (n1 /\ n2)
            /\ geoOut.result = "EndpointToMidpoint" <=> (n1 # n2)
            /\ geoOut.result = "MidpointToMidpoint" <=> (~n1 /\ ~n2)
            /\ geoOut.swapped = geoOut.result
            /\ geoIn.threshold = ENDPOINT_THRESHOLD =>
                  geoOut.by_default = geoOut.result

\* One parameter exactly on the default threshold, the other mid-span.
C17_Witness ==
    /\ geoOut.fn = "classify_intersection"
    /\ geoIn.threshold = ENDPOINT_THRESHOLD
    /\ geoIn.t1 = Rat(98, 100)
    /\ geoIn.t2 = Rat(1, 2)
    /\ geoOut.result = "EndpointToMidpoint"

\* Width * Height of a member of the pair drawn.
Area(m) == geoIn.mem[m].Width * geoIn.mem[m].Height

\* C18: assign_primary_secondary returns the two input members, each once;
\* for EndpointToMidpoint the member met at its midpoint is primary and the
\* member met at its endpoint secondary whatever the cross-sections; for
\* MidpointToMidpoint and EndpointToEndpoint the member with the larger
\* Width * Height is primary.
C18_PrimarySecondary ==
    geoOut.fn = "assign_primary_secondary" =>
        LET r     == geoOut.result
            a_end == NearEnd(geoIn.t_a, ENDPOINT_THRESHOLD)
            b_end == NearEnd(geoIn.t_b, ENDPOINT_THRESHOLD)
        IN  /\ {r.primary, r.secondary} = {"A", "B"}
            /\ r.primary # r.secondary
            /\ (geoIn.intersection_type = "EndpointToMidpoint"
                    /\ a_end /\ ~b_end) =>
                  r = [primary |-> "B", secondary |-> "A"]
            /\ (geoIn.intersection_type = "EndpointToMidpoint"
                    /\ b_end /\ ~a_end) =>
                  r = [primary |-> "A", secondary |-> "B"]
            /\ (geoIn.intersection_type # "EndpointToMidpoint"
                    /\ Area("A") > Area("B")) => r.primary = "A"
            /\ (geoIn.intersection_type # "EndpointToMidpoint"
                    /\ Area("B") > Area("A")) => r.primary = "B"

\* The larger member ends on the smaller one's span and is secondary.
C18_Witness ==
    /\ geoOut.fn = "assign_primary_secondary"
    /\ geoIn.intersection_type = "EndpointToMidpoint"
    /\ geoIn.t_a = One
    /\ geoIn.t_b = Rat(1, 2)
    /\ Area("A") > Area("B")
    /\ geoOut.result = [primary |-> "B", secondary |-> "A"]

\* The narrower member of a crossing has the larger area and is primary.
C18_WitnessArea ==
    /\ geoOut.fn = "assign_primary_secondary"
    /\ geoIn.intersection_type = "MidpointToMidpoint"
    /\ geoIn.mem["A"].Width > geoIn.mem["B"].Width
    /\ Area("B") > Area("A")
    /\ geoOut.result.primary = "B"

\* The direction of a datum drawn.
Direction(datum) == Sub(datum.B_EndPoint, datum.A_StartPoint)

\* The unsigned angle between the directions p and s, neither zero, is at
\* least 5 degrees: tan^2 >= tan^2(5 deg) = 0.0077, as |p x s|^2 against
\* (p . s)^2.
AtLeastMinAngle(p, s) ==
    Dot(Cross(p, s), Cross(p, s)) * 10000 >= 77 * Dot(p, s) * Dot(p, s)

\* C19: compute_joint_cs returns a coordinate system iff both datums have
\* non-zero length and the unsigned angle between them is at least 5
\* degrees, and the no-joint value otherwise; the angle of a coordinate
\* system returned is the unsigned angle, within [5, 90] degrees.
C19_JointCS ==
    geoOut.fn = "compute_joint_cs" =>
        LET p == Direction(geoIn.primary)
            s == Direction(geoIn.secondary)
            r == geoOut.result
        IN  /\ r.valid <=> /\ p # <<0, 0, 0>>
                           /\ s # <<0, 0, 0>>
                           /\ AtLeastMinAngle(p, s)
            /\ ~r.valid => r = NoJointCS
            /\ r.valid =>
                  /\ MIN_ANGLE_DEGREES <= r.angle /\ r.angle <= 90
                  /\ geoOut.reversed.valid
                  /\ geoOut.reversed.angle = r.angle
                  /\ Dot(p, s) = 0 => r.angle = 90
                  /\ r.origin = geoIn.point

\* Datums 174.81 degrees apart: the unsigned angle 5.19 is reported as 5.
C19_Witness ==
    /\ geoOut.fn = "compute_joint_cs"
    /\ Direction(geoIn.primary) = <<1, 0, 0>>
    /\ Direction(geoIn.secondary) = <<-11, 1, 0>>
    /\ geoOut.result.valid
    /\ geoOut.result.angle = 5

\* Datums 4.76 degrees apart, and a zero-length datum: no joint.
C19_WitnessNoJoint ==
    /\ geoOut.fn = "compute_joint_cs"
    /\ Direction(geoIn.primary) = <<12, 1, 0>>
    /\ Direction(geoIn.secondary) \in {<<1, 0, 0>>, <<0, 0, 0>>}
    /\ geoOut.result = NoJointCS

\* The two members of the scanned document a result is for.
PairOf(r) == {r.primary_obj, r.secondary_obj}

\* A TimberJoint of the scanned document links the two members, in either
\* order.
Linked(pair) ==
    \E jt \in geoIn.joints : {jt.PrimaryMember, jt.SecondaryMember} = pair

\* The closest approach of the datums of two scanned members.
ScanApproach(a, b) ==
    closest_approach_segments(geoIn.mem[a].A_StartPoint, geoIn.mem[a].B_EndPoint,
                              geoIn.mem[b].A_StartPoint, geoIn.mem[b].B_EndPoint)

\* The pair may be given a joint: it is unlinked, within the tolerance, and
\* its joint coordinate system is valid.
Joinable(a, b) ==
    /\ ~Linked({a, b})
    /\ ~BeyondTolerance(ScanApproach(a, b).distSq)
    /\ AtLeastMinAngle(Direction(geoIn.mem[a]), Direction(geoIn.mem[b]))
    /\ Direction(geoIn.mem[a]) # <<0, 0, 0>>
    /\ Direction(geoIn.mem[b]) # <<0, 0, 0>>

C20_EveryJoinablePairReported ==
    geoOut.fn = "detect_intersections" =>
        \A a \in {"A", "B", "C"} : \A b \in {"A", "B", "C"} \ {a} :
            Joinable(a, b) =>
                \E i \in DOMAIN geoOut.result : PairOf(geoOut.result[i]) = {a, b}

-----------------------------------------------------------------------------
(* SpecDef: the methods of the built-in joint definitions applied to       *)
(* arguments drawn from bounded sets, one call per behaviour.              *)

\* Cross-sections of the secondary a peg layout is derived from, in tenths
\* of a mm: heights 140, 150, 160, 170 and 200 mm.
PegSections ==
    {[Width |-> 1500, Height |-> h] : h \in {1400, 1500, 1600, 1700, 2000}}

\* joint_cs.angle values, in degrees: on, just inside and just outside
\* every MIN_ANGLE and MAX_ANGLE, and the extremes.
ValidateAngles ==
    {0, 44, 45, 46, 59, 60, 61, 74, 75, 76, 90, 104, 105, 106, 119, 120,
     121, 134, 135, 136, 180}

JointCSWith(angle) == [NoJointCS EXCEPT !.valid = TRUE, !.angle = angle]

\* The parameters are those derived for one pair of sections; the members
\* validated against may have other sections, so that the dimension checks
\* fire too.
ValidateInputs ==
    {[kind |-> "validate", id |-> id,
      params |-> get_parameters(id, [Width |-> 1500, Height |-> 2000], from),
      primary |-> pri, secondary |-> sec, joint_cs |-> JointCSWith(a)] :
        id \in BuiltinIds, from \in SectionDims, pri \in SectionDims,
        sec \in SectionDims, a \in ValidateAngles}

\* peg_count as derived, or overridden through set_override.
PegCounts == {PyNone} \cup {PyInt(k) : k \in 0..4}

PegParameters(primary, secondary, count) ==
    IF count = PyNone
    THEN ThroughMortiseTenon_get_parameters(primary, secondary)
    ELSE set_override(ThroughMortiseTenon_get_parameters(primary, secondary),
                      "peg_count", count)

PegInputs ==
    {[kind |-> "pegs", id |-> "through_mortise_tenon",
      params |-> PegParameters(pri, sec, count), count |-> count,
      primary |-> pri, secondary |-> sec, joint_cs |-> JointCSWith(90)] :
        pri \in SectionDims, sec \in PegSections, count \in PegCounts}

DefInputs == ValidateInputs \cup PegInputs

InitDef ==
    /\ defIn \in DefInputs
    /\ defOut = NoCall
    /\ ps = ParameterSet(<<>>)
    /\ supplied = <<>>
    /\ lastOp = NoOp
    /\ member = <<>>
    /\ joint = <<>>
    /\ passes = 0
    /\ edits = 0
    /\ lastPass = <<>>
    /\ registry = <<>>
    /\ loaded = FALSE
    /\ user_dir = <<>>
    /\ regOp = <<>>
    /\ geoIn = <<>>
    /\ geoOut = <<>>
    /\ frame = <<>>
    /\ jointObjs = <<>>
    /\ touching = {}
    /\ changes = 0
    /\ sharedOp = ""
    /\ visited = {}
    /\ bentObjs = <<>>
    /\ memberIDs = <<>>
    /\ bentOp = <<>>

\* definition.validate(params, primary, secondary, joint_cs)
Validate ==
    /\ defIn.kind = "validate"
    /\ defOut = NoCall
    /\ defOut' = [fn |-> "validate",
                  result |-> validate(defIn.id, defIn.params, defIn.primary,
                                      defIn.secondary, defIn.joint_cs)]
    /\ UNCHANGED <<defIn, outsideDef>>

\* definition.build_pegs(params, primary, secondary, joint_cs)
BuildPegs ==
    /\ defIn.kind = "pegs"
    /\ defOut = NoCall
    /\ defOut' = [fn |-> "build_pegs",
                  result |-> build_pegs(defIn.id, defIn.params, defIn.primary,
                                        defIn.secondary, defIn.joint_cs)]
    /\ UNCHANGED <<defIn, outsideDef>>

NextDef == Validate \/ BuildPegs

SpecDef == InitDef /\ [][NextDef]_vars

-----------------------------------------------------------------------------
(* Properties of the definitions' methods, checked under SpecDef.          *)

AngleRecord == [level |-> "error", code |-> "ANGLE_OUT_OF_RANGE"]

Returned(results, record) == \E i \in DOMAIN results : results[i] = record

\* C21: for every built-in joint type and every parameter set, validate
\* returns a record with level error and code ANGLE_OUT_OF_RANGE whenever
\* the angle of the joint coordinate system is strictly below MIN_ANGLE or
\* strictly above MAX_ANGLE, and no such record when the angle is inside the
\* closed range.
C21_AngleOutOfRange ==
    defOut.fn = "validate" =>
        LET a == defIn.joint_cs.angle
        IN  Returned(defOut.result, AngleRecord)
                <=> (a < MIN_ANGLE(defIn.id) \/ a > MAX_ANGLE(defIn.id))

\* A dovetail at 106 degrees whose tail is also too tall: the angle record
\* comes with a warning.
C21_Witness ==
    /\ defOut.fn = "validate"
    /\ defIn.id = "dovetail"
    /\ defIn.joint_cs.angle = 106
    /\ Returned(defOut.result, AngleRecord)
    /\ Len(defOut.result) > 1

\* A half lap exactly at its MIN_ANGLE: no angle record.
C21_WitnessOnBound ==
    /\ defOut.fn = "validate"
    /\ defIn.id = "half_lap"
    /\ defIn.joint_cs.angle = 60
    /\ ~Returned(defOut.result, AngleRecord)

\* The peg at offset off (a fraction, in tenths of a mm, from the tenon's
\* vertical centre) lies within a tenon of height th and has exactly edge
\* between its centre and the nearer tenon edge.
LeavesEdge(off, th, edge) ==
    /\ 2 * Abs(off.n) <= th * off.d
    /\ th * off.d - 2 * Abs(off.n) = 2 * edge * off.d

\* C22: with default parameters the peg count is 2 if the secondary height
\* is >= 150 and 1 otherwise; when 2, the two pegs are symmetric about the
\* tenon's vertical centre and each lies inside the tenon height leaving
\* peg_edge_distance between its centre and the nearer tenon edge; and
\* build_pegs returns exactly peg_count pegs, none when peg_count <= 0.
C22_PegLayout ==
    defOut.fn = "build_pegs" =>
        LET pegs  == defOut.result
            count == IntOf(Get(defIn.params, "peg_count"))
            th    == Mag(Get(defIn.params, "tenon_height"))
            edge  == Mag(Get(defIn.params, "peg_edge_distance"))
        IN  /\ Len(pegs) = IF count <= 0 THEN 0 ELSE count
            /\ defIn.count = PyNone =>
                  /\ count = IF defIn.secondary.Height >= 1500 THEN 2 ELSE 1
                  /\ count = 2 =>
                        /\ pegs[1].off_z.n * pegs[2].off_z.d
                              + pegs[2].off_z.n * pegs[1].off_z.d = 0
                        /\ \A i \in 1..2 : LeavesEdge(pegs[i].off_z, th, edge)

\* What holds of the pegs: their number, and with two default pegs the
\* symmetry about the centre and the position inside the tenon height.
C22_PegCount ==
    defOut.fn = "build_pegs" =>
        LET pegs  == defOut.result
            count == IntOf(Get(defIn.params, "peg_count"))
            th    == Mag(Get(defIn.params, "tenon_height"))
        IN  /\ Len(pegs) = IF count <= 0 THEN 0 ELSE count
            /\ defIn.count = PyNone =>
                  /\ count = IF defIn.secondary.Height >= 1500 THEN 2 ELSE 1
                  /\ count = 2 =>
                        /\ pegs[1].off_z.n * pegs[2].off_z.d
                              + pegs[2].off_z.n * pegs[1].off_z.d = 0
                        /\ \A i \in 1..2 :
                              2 * Abs(pegs[i].off_z.n) <= th * pegs[i].off_z.d

\* The edge distance is left whenever the tenon is at least two edge
\* distances high.
C22_EdgeLeftOnTallTenon ==
    (/\ defOut.fn = "build_pegs"
     /\ defIn.count = PyNone
     /\ Len(defOut.result) = 2
     /\ Mag(Get(defIn.params, "tenon_height"))
            >= 2 * Mag(Get(defIn.params, "peg_edge_distance")))
        => \A i \in 1..2 :
              LeavesEdge(defOut.result[i].off_z,
                         Mag(Get(defIn.params, "tenon_height")),
                         Mag(Get(defIn.params, "peg_edge_distance")))

\* Two default pegs on a secondary 160 mm high.
C22_Witness ==
    /\ defOut.fn = "build_pegs"
    /\ defIn.count = PyNone
    /\ defIn.secondary.Height = 1600
    /\ Len(defOut.result) = 2

-----------------------------------------------------------------------------
(* Properties of the document model, continued; checked under Spec.        *)

\* The pass got as far as step 3 with stored Parameters that from_json
\* cannot turn into a ParameterSet.
MalformedAtStep3 ==
    /\ ReachedLookup
    /\ lastPass.branch # "unknown_type"
    /\ lastPass.before.text # "empty"
    /\ from_json_raises(lastPass.before)

-----------------------------------------------------------------------------
\* The arms of _recompute_joint that run the _skip_touch guard: the final
\* step 8 and the NO_INTERSECTION arm.
GuardedBranches == {"fresh", "replaced", "refreshed", "no_intersection"}

LinkedMembers == {joint.PrimaryMember, joint.SecondaryMember}

\* C24: a pass that reaches step 8 or the NO_INTERSECTION arm flips
\* _skip_touch and touches both members exactly when the flag was false on
\* entry; a pass that returns early (no member link, out of tolerance,
\* unknown joint type) or raises leaves the flag as it was and touches no
\* member.
C24_SkipTouchAlternates ==
    lastPass.ran =>
        IF lastPass.branch \in GuardedBranches
        THEN /\ joint.skip_touch = ~lastPass.entry_skip
             /\ lastPass.touch = ~lastPass.entry_skip
             /\ lastPass.touch => \A m \in LinkedMembers : member[m].touched
        ELSE /\ joint.skip_touch = lastPass.entry_skip
             /\ ~lastPass.touch

\* Between passes the flag is not written: a step changes it only by
\* running the joint's execute (none runs more than two passes).
C24_OnlyPassesFlip ==
    [][joint.exists /\ joint'.skip_touch # joint.skip_touch => lastPass'.ran]_vars

\* A pass through step 8 that found the flag set: it clears the flag and
\* touches nothing; and a NO_INTERSECTION pass that found it clear.
C24_Witness ==
    /\ lastPass.ran
    /\ lastPass.branch \in {"fresh", "replaced", "refreshed"}
    /\ lastPass.entry_skip
    /\ ~joint.skip_touch
    /\ ~lastPass.touch

C24_WitnessNoIntersection ==
    /\ lastPass.ran
    /\ lastPass.branch = "no_intersection"
    /\ ~lastPass.entry_skip
    /\ joint.skip_touch
    /\ \A m \in LinkedMembers : member[m].touched

\* A raising pass that found the flag set and left it set.
C24_WitnessRaised ==
    /\ lastPass.ran
    /\ lastPass.branch \in RaisedBranches
    /\ lastPass.entry_skip
    /\ joint.skip_touch

-----------------------------------------------------------------------------
(* SpecShared: a document in which two joints share a member.  M carries   *)
(* J1 to N1 and J2 to N2; the joints are created one after the other with  *)
(* create_timber_joint and the host recomputes while an object is touched. *)
(* A recompute executes the touched members, then every joint that is      *)
(* touched or links to a member that executed, in document order.          *)

\* External edits per behaviour.
MaxChanges == 1

SharedMembers == {"M", "N1", "N2"}

JointNames == <<"J1", "J2">>

\* The members each joint is created between.
JointPairs == [J1 |-> <<"M", "N1">>, J2 |-> <<"M", "N2">>]

\* TimberMember.execute in a document with several joints: the cuts of
\* every joint that names the member, in document order.
TimberMember_execute_all(m, obj, jnts) ==
    [TimberMember_execute(m, obj, NoJoint) EXCEPT
        !.cuts = collect_joint_cuts(m, jnts["J1"])
                    \o collect_joint_cuts(m, jnts["J2"])]

\* The members named ms, executed.
execute_frame(mem, ms, jnts) ==
    [m \in SharedMembers |->
        IF m \in ms
        THEN [mem[m] EXCEPT !.Shape = TimberMember_execute_all(m, mem[m], jnts),
                            !.touched = FALSE]
        ELSE mem[m]]

\* The document after the execute of joint j gave out.
after_shared_joint(doc, j, out) ==
    [frame |-> [m \in SharedMembers |->
                   IF out.touch /\ m \in {doc.joints[j].PrimaryMember,
                                          doc.joints[j].SecondaryMember}
                   THEN [doc.frame[m] EXCEPT !.touched = TRUE]
                   ELSE doc.frame[m]],
     joints |-> [doc.joints EXCEPT ![j] = [out.obj EXCEPT !.touched = FALSE]],
     touching |-> IF out.touch THEN doc.touching \cup {j} ELSE doc.touching]

\* Joint j in its turn: executed if it is touched or links to a member that
\* executed in this recompute.
execute_in_turn(doc, j, ran) ==
    IF /\ doc.joints[j].exists
       /\ \/ doc.joints[j].touched
          \/ {doc.joints[j].PrimaryMember, doc.joints[j].SecondaryMember}
                \cap ran # {}
    THEN after_shared_joint(doc, j, execute(doc.joints[j], doc.frame))
    ELSE doc

joints_in_turn(doc, ran) ==
    execute_in_turn(execute_in_turn(doc, "J1", ran), "J2", ran)

\* One doc.recompute() of the document with the two joints.
recompute_document(mem, jnts) ==
    joints_in_turn(
        [frame |-> execute_frame(mem, {m \in SharedMembers : mem[m].touched},
                                 jnts),
         joints |-> jnts, touching |-> {}],
        {m \in SharedMembers : mem[m].touched})

recompute_document_again(doc) == recompute_document(doc.frame, doc.joints)

\* create_timber_joint for the joint named j: the new object, and two
\* doc.recompute() calls.
create_shared_joint(mem, jnts, j, intersection_result, joint_type_id) ==
    recompute_document_again(
        recompute_document(mem,
            [jnts EXCEPT ![j] = NewJoint(intersection_result.primary_obj,
                                         intersection_result.secondary_obj,
                                         intersection_result, joint_type_id)]))

SharedBecomes(doc, op) ==
    /\ frame' = doc.frame
    /\ jointObjs' = doc.joints
    /\ touching' = doc.touching
    /\ sharedOp' = op

SharedQuiescent ==
    /\ \A m \in SharedMembers : ~frame[m].touched
    /\ \A j \in DOMAIN jointObjs : ~jointObjs[j].touched

\* M along x; N1 butts M at its middle and N2 at a quarter of its length.
InitShared ==
    /\ frame =
          LET mem == [m \in SharedMembers |->
                  CASE m = "M" ->
                          InitialMember([A_StartPoint |-> <<0, 0, 0>>,
                                         B_EndPoint |-> <<20, 0, 0>>])
                    [] m = "N1" ->
                          InitialMember([A_StartPoint |-> <<10, 0, 0>>,
                                         B_EndPoint |-> <<10, 12, 0>>])
                    [] m = "N2" ->
                          InitialMember([A_StartPoint |-> <<5, 0, 0>>,
                                         B_EndPoint |-> <<5, 12, 0>>])]
          IN  [m \in SharedMembers |->
                  [mem[m] EXCEPT
                      !.Shape = TimberMember_execute(m, mem[m], NoJoint)]]
    /\ jointObjs = [j \in {"J1", "J2"} |-> NoJoint]
    /\ touching = {}
    /\ changes = 0
    /\ sharedOp = "init"
    /\ visited = {}
    /\ ps = ParameterSet(<<>>)
    /\ supplied = <<>>
    /\ lastOp = NoOp
    /\ member = <<>>
    /\ joint = <<>>
    /\ passes = 0
    /\ edits = 0
    /\ lastPass = <<>>
    /\ registry = <<>>
    /\ loaded = FALSE
    /\ user_dir = <<>>
    /\ regOp = <<>>
    /\ geoIn = <<>>
    /\ geoOut = <<>>
    /\ defIn = <<>>
    /\ defOut = <<>>
    /\ bentObjs = <<>>
    /\ memberIDs = <<>>
    /\ bentOp = <<>>

\* AddJointCommand.Activated on M and the other member of the next joint.
CreateSharedJoint ==
    /\ \E i \in DOMAIN JointNames :
          /\ ~jointObjs[JointNames[i]].exists
          /\ \A k \in 1..(i - 1) : jointObjs[JointNames[k]].exists
          /\ \E id \in JointTypeArgs :
                LET pair == JointPairs[JointNames[i]]
                    result == test_pair(frame, pair[1], pair[2])
                IN  /\ result.found
                    /\ SharedBecomes(
                           create_shared_joint(frame, jointObjs,
                                               JointNames[i],
                                               result, id), "create")
    /\ visited' = {}
    /\ UNCHANGED <<changes, outsideShared>>

\* Width and Height of a member set in the property editor.
EditSharedSection ==
    /\ changes < MaxChanges
    /\ \E m \in SharedMembers, d \in SectionDims :
          /\ <<frame[m].Width, frame[m].Height>> # <<d.Width, d.Height>>
          /\ frame' = [frame EXCEPT ![m].Width = d.Width,
                                    ![m].Height = d.Height,
                                    ![m].touched = TRUE]
    /\ changes' = changes + 1
    /\ touching' = {}
    /\ sharedOp' = "edit"
    /\ visited' = {}
    /\ UNCHANGED <<jointObjs, outsideShared>>

\* The host recomputes the document while an object is touched.
RecomputeShared ==
    /\ ~SharedQuiescent
    /\ SharedBecomes(recompute_document(frame, jointObjs), "recompute")
    /\ visited' = visited \cup {[frame |-> frame, joints |-> jointObjs]}
    /\ UNCHANGED <<changes, outsideShared>>

NextShared == CreateSharedJoint \/ EditSharedSection \/ RecomputeShared

SpecShared == InitShared /\ [][NextShared]_vars

\* The host keeps recomputing while an object is touched: weak fairness of
\* RecomputeShared, with ENABLED written out as the guard of the action.
FairSpecShared ==
    /\ SpecShared
    /\ \/ []<>SharedQuiescent
       \/ []<><<sharedOp' = "recompute">>_vars

-----------------------------------------------------------------------------
(* Properties of the document with a shared member.                        *)

BothJoints == \A j \in DOMAIN jointObjs : jointObjs[j].exists

\* Under FairSpecShared: with two joints on one member the recompute passes
\* that follow without an external edit reach a document in which no
\* object is touched.
SharedMemberTerminates ==
    (BothJoints /\ ~SharedQuiescent) ~> SharedQuiescent

C25_FirstJointSettles ==
    (~BothJoints /\ sharedOp = "create") => SharedQuiescent

\* The two flags out of phase: a recompute in which one joint touched M and
\* the other, with its flag set, did not.
C25_Witness ==
    /\ BothJoints
    /\ sharedOp = "recompute"
    /\ Cardinality(touching) = 1
    /\ frame["M"].touched
    /\ jointObjs["J1"].skip_touch # jointObjs["J2"].skip_touch

-----------------------------------------------------------------------------
(* Properties of the one-joint document, continued; checked under Spec.    *)

\* The member's shape carries exactly the cuts its joint now stores for it.
CutsCurrent(m) == member[m].Shape.cuts = collect_joint_cuts(m, joint)

C26_Witness ==
    /\ Quiescent
    /\ lastPass.ran
    /\ lastPass.branch = "out_of_tolerance"
    /\ isNull(joint.PrimaryCutTool)
    /\ \E m \in Members : member[m].Shape.cuts # <<>>

C27_DefaultsFollowGeometry ==
    (lastPass.ran /\ lastPass.branch = "refreshed") =>
        \A nm \in Names(StoredNow) :
            StoredNow.params[nm].default_value
                = FreshNow.params[nm].default_value

\* A half lap whose primary is now 160 mm high: lap_depth_primary has the
\* fresh default 80 mm and still the bounds 50 mm and 150 mm of the 200 mm
\* member it was created on.
C27_Witness ==
    /\ lastPass.ran
    /\ lastPass.branch = "refreshed"
    /\ joint.JointType = "half_lap"
    /\ member[joint.PrimaryMember].Height = 1600
    /\ StoredNow.params["lap_depth_primary"].default_value = PyFloat(800)
    /\ StoredNow.params["lap_depth_primary"].min_value = PyFloat(500)
    /\ StoredNow.params["lap_depth_primary"].max_value = PyFloat(1500)

\* C28: with the built-in definitions loaded, a joint that
\* create_timber_joint gave the default type of its intersection
\* classification has a type get_definition resolves, and its recompute
\* built cut tools and not the placeholder.
C28_DefaultTypeResolves ==
    (/\ lastPass.op = "create"
     /\ joint.JointType = DefaultJointType(joint.IntersectionType))
        => /\ get_definition(joint.JointType) # NoDefinition
           /\ joint.Shape # BoxShape
           /\ ~isNull(joint.PrimaryCutTool)
           /\ ~isNull(joint.SecondaryCutTool)

\* The same for the two classifications whose default is a built-in.
C28_MidpointDefaultsResolve ==
    (/\ lastPass.op = "create"
     /\ joint.IntersectionType # "EndpointToEndpoint"
     /\ joint.JointType = DefaultJointType(joint.IntersectionType))
        => /\ get_definition(joint.JointType) # NoDefinition
           /\ ~isNull(joint.PrimaryCutTool)
           /\ ~isNull(joint.SecondaryCutTool)

\* Two members meeting end to end, joined without a type: the joint is
\* given scarf_bladed and is the placeholder.
C28_Witness ==
    /\ lastPass.op = "create"
    /\ joint.IntersectionType = "EndpointToEndpoint"
    /\ joint.JointType = "scarf_bladed"
    /\ get_definition(joint.JointType) = NoDefinition
    /\ joint.Shape = BoxShape
    /\ isNull(joint.PrimaryCutTool)

-----------------------------------------------------------------------------
(* objects/Bent.py: the Members list of each Bent and the MemberIDs it      *)
(* hands out.  A document holds three Bents, in document order, and four    *)
(* TimberMembers whose Role does not change.                                *)

ROLE_PREFIX ==
    [Post |-> "P", Beam |-> "B", Rafter |-> "R", Purlin |-> "PU",
     Girt |-> "G", TieBeam |-> "B", Brace |-> "BR", Header |-> "H",
     Trimmer |-> "T", Ridge |-> "RD", Valley |-> "V", Sill |-> "S",
     Plate |-> "PL", FloorJoist |-> "FJ", SummerBeam |-> "SB"]

\* ROLE_PREFIX.get(role, "M")
role_prefix(role) == IF role \in DOMAIN ROLE_PREFIX THEN ROLE_PREFIX[role] ELSE "M"

DecimalDigits == <<"0", "1", "2", "3", "4", "5", "6", "7", "8", "9">>

RECURSIVE format_int(_)
\* The decimal text an f-string gives a non-negative int.
format_int(n) == IF n < 10 THEN DecimalDigits[n + 1] ELSE format_int(n \div 10) \o DecimalDigits[(n % 10) + 1]

\* f"{prefix}{bent_num}-{i}"
new_id(prefix, bent_num, i) == prefix \o format_int(bent_num) \o "-" \o format_int(i)

\* The Role of each TimberMember of the document.
BentMemberRoles == [Post1 |-> "Post", Post2 |-> "Post", Beam1 |-> "Beam", Tie1 |-> "TieBeam"]

BentMembers == DOMAIN BentMemberRoles

\* The BentNumber of each Bent, in document order (0 = unassigned).
BentNumbers == <<1, 2, 0>>

BentIndexes == DOMAIN BentNumbers

\* member in list
in_list(member_obj, list) == \E i \in DOMAIN list : list[i] = member_obj

\* list.remove(member): the list without the first occurrence of member.
list_remove(list, member_obj) == LET i == CHOOSE k \in DOMAIN list : list[k] = member_obj /\ \A h \in 1..(k - 1) : list[h] # member_obj IN SubSeq(list, 1, i - 1) \o SubSeq(list, i + 1, Len(list))

\* The position of the child at index k among the children of its role,
\* counted from 1 in list order.
position_in_role(list, k) == Cardinality({h \in 1..k : BentMemberRoles[list[h]] = BentMemberRoles[list[k]]})

\* Bent.assign_member_ids: the document after the call on the Bent at index b.
assign_member_ids(doc, b) == LET obj == doc.bents[b] IN IF obj.BentNumber = 0 \/ obj.Members = <<>> THEN doc ELSE [doc EXCEPT !.ids = [m \in BentMembers |-> IF in_list(m, obj.Members) THEN LET k == CHOOSE h \in DOMAIN obj.Members : obj.Members[h] = m /\ \A g \in (h + 1)..Len(obj.Members) : obj.Members[g] # m IN new_id(role_prefix(BentMemberRoles[m]), obj.BentNumber, position_in_role(obj.Members, k)) ELSE doc.ids[m]]]

\* Bent.clear_member_id
clear_member_id(doc, member_obj) == [doc EXCEPT !.ids[member_obj] = ""]

\* find_parent_bent: the index of the first Bent of the document whose
\* Members holds the member, 0 for None.
find_parent_bent(doc, member_obj) == IF \E b \in DOMAIN doc.bents : in_list(member_obj, doc.bents[b].Members) THEN CHOOSE b \in DOMAIN doc.bents : in_list(member_obj, doc.bents[b].Members) /\ \A a \in 1..(b - 1) : ~in_list(member_obj, doc.bents[a].Members) ELSE 0

\* obj.touch()
touch_bent(doc, b) == [doc EXCEPT !.bents[b].touched = TRUE]

\* Bent.remove_member
remove_member(doc, b, member_obj) == LET current == doc.bents[b].Members IN IF ~in_list(member_obj, current) THEN doc ELSE touch_bent(assign_member_ids(clear_member_id([doc EXCEPT !.bents[b].Members = list_remove(current, member_obj)], member_obj), b), b)

\* Bent.add_member with the single-bent enforcement left out.
add_member_without_enforcement(doc, b, member_obj) == LET current == doc.bents[b].Members IN IF in_list(member_obj, current) THEN doc ELSE touch_bent(assign_member_ids([doc EXCEPT !.bents[b].Members = Append(current, member_obj)], b), b)

\* Bent.add_member
add_member(doc, b, member_obj) == LET current == doc.bents[b].Members other == find_parent_bent(doc, member_obj) removed == IF other # 0 /\ other # b THEN remove_member(doc, other, member_obj) ELSE doc IN IF in_list(member_obj, current) THEN doc ELSE touch_bent(assign_member_ids([removed EXCEPT !.bents[b].Members = Append(current, member_obj)], b), b)

BentDocument == [bents |-> bentObjs, ids |-> memberIDs]

BentBecomes(doc, call) == bentObjs' = doc.bents /\ memberIDs' = doc.ids /\ bentOp' = call /\ UNCHANGED outsideBent

\* create_bent: a new Bent has no Members and the BentNumber it was given;
\* create_timber_member: a new TimberMember carries the prefix of its role
\* as its MemberID.
InitBent ==
    /\ ps = <<>>
    /\ supplied = <<>>
    /\ lastOp = <<>>
    /\ member = <<>>
    /\ joint = <<>>
    /\ passes = 0
    /\ edits = 0
    /\ lastPass = <<>>
    /\ registry = <<>>
    /\ loaded = FALSE
    /\ user_dir = <<>>
    /\ regOp = <<>>
    /\ geoIn = <<>>
    /\ geoOut = <<>>
    /\ defIn = <<>>
    /\ defOut = <<>>
    /\ frame = <<>>
    /\ jointObjs = <<>>
    /\ touching = {}
    /\ changes = 0
    /\ sharedOp = ""
    /\ visited = {}
    /\ bentObjs = [b \in BentIndexes |-> [Members |-> <<>>, BentNumber |-> BentNumbers[b], touched |-> FALSE]]
    /\ memberIDs = [m \in BentMembers |-> role_prefix(BentMemberRoles[m])]
    /\ bentOp = [op |-> "create", bent |-> 0, member |-> ""]

AddMember ==
    \E b \in BentIndexes, m \in BentMembers :
        BentBecomes(add_member(BentDocument, b, m), [op |-> "add_member", bent |-> b, member |-> m])

RemoveMember ==
    \E b \in BentIndexes, m \in BentMembers :
        BentBecomes(remove_member(BentDocument, b, m), [op |-> "remove_member", bent |-> b, member |-> m])

AssignMemberIds ==
    \E b \in BentIndexes :
        BentBecomes(assign_member_ids(BentDocument, b), [op |-> "assign_member_ids", bent |-> b, member |-> ""])

NextBent == AddMember \/ RemoveMember \/ AssignMemberIds

SpecBent == InitBent /\ [][NextBent]_vars

-----------------------------------------------------------------------------
(* Properties of SpecBent.                                                  *)

\* The Bents whose Members list holds the member.
BentsOf(m) == {b \in BentIndexes : in_list(m, bentObjs[b].Members)}

\* How often the member appears in the Members list of the Bent.
Occurrences(b, m) == Cardinality({i \in DOMAIN bentObjs[b].Members : bentObjs[b].Members[i] = m})

SingleBent == \A m \in BentMembers : Cardinality(BentsOf(m)) <= 1 /\ \A b \in BentIndexes : Occurrences(b, m) <= 1

\* A step that is add_member of a member already in the target Bent, or
\* remove_member of a member not in it, leaves the document as it was.
IdleCallChangesNothing ==
    \A b \in BentIndexes, m \in BentMembers :
        /\ (bentOp' = [op |-> "add_member", bent |-> b, member |-> m] /\ in_list(m, bentObjs[b].Members)) => (bentObjs' = bentObjs /\ memberIDs' = memberIDs)
        /\ (bentOp' = [op |-> "remove_member", bent |-> b, member |-> m] /\ ~in_list(m, bentObjs[b].Members)) => (bentObjs' = bentObjs /\ memberIDs' = memberIDs)

\* C29: starting from a document in which no member is listed in any Bent,
\* after any sequence of add_member and remove_member calls every member is
\* in the Members list of at most one Bent and appears at most once in that
\* list; add_member of a member already in the target Bent and remove_member
\* of a member not in the Bent change nothing.
C29_SingleBentEnforcement == []SingleBent /\ [][IdleCallChangesNothing]_vars

\* An add_member has moved a member out of the Bent that held it: the member
\* is now in the target Bent only, next to another member.
C29_Witness ==
    /\ bentOp.op = "add_member"
    /\ bentOp.bent = 2
    /\ BentsOf(bentOp.member) = {2}
    /\ Len(bentObjs[2].Members) = 2
    /\ bentObjs[2].Members[2] = bentOp.member
    /\ bentObjs[1].touched
    /\ Len(bentObjs[1].Members) = 1

\* C30: within a Bent whose BentNumber is non-zero, after any sequence of
\* add_member, remove_member and assign_member_ids calls no two members of
\* the Bent carry the same MemberID, whatever their roles.
C30_MemberIDsUnique ==
    \A b \in BentIndexes :
        bentObjs[b].BentNumber # 0 =>
            \A i, j \in DOMAIN bentObjs[b].Members :
                i # j => memberIDs[bentObjs[b].Members[i]] # memberIDs[bentObjs[b].Members[j]]

\* What the code does keep: two members of a numbered Bent whose roles have
\* different prefixes, or that have the same role, carry different
\* MemberIDs.
C30_UniqueWithinPrefixOrRole ==
    \A b \in BentIndexes :
        bentObjs[b].BentNumber # 0 =>
            \A i, j \in DOMAIN bentObjs[b].Members :
                LET mi == bentObjs[b].Members[i]
                    mj == bentObjs[b].Members[j]
                IN  (i # j /\ (BentMemberRoles[mi] = BentMemberRoles[mj] \/ role_prefix(BentMemberRoles[mi]) # role_prefix(BentMemberRoles[mj])))
                        => memberIDs[mi] # memberIDs[mj]

\* A Beam and a TieBeam sit in the same numbered Bent and carry the ID
\* "B1-1" both.
C30_Witness ==
    /\ in_list("Beam1", bentObjs[1].Members)
    /\ in_list("Tie1", bentObjs[1].Members)
    /\ memberIDs["Beam1"] = "B1-1"
    /\ memberIDs["Tie1"] = "B1-1"

====
